---- MODULE Spec2Model ----
(***************************************************************************)
(* GophDrive: the session-lock manager (backend/internal/session), the     *)
(* ephemeral storage adapter (backend/internal/adapter/memory)             *)
(* and the Google Drive adapter (backend/internal/adapter/googledrive).    *)
(*                                                                         *)
(* Lock part.  SessionHandler holds one session.Locker; it is either the   *)
(* DynamoDB-backed LockManager or the in-memory MockLocker.  A call is     *)
(* modelled in two steps, as the code runs it: Invoke (the handler is      *)
(* entered and the lines before the store access run) and the operation's  *)
(* own action (the conditional write, or the body under the mutex).  The   *)
(* clock is time.Now().Unix(), in seconds.                                 *)
(***************************************************************************)
EXTENDS Integers, Sequences, FiniteSets, TLC

\* ttlDuration, in seconds (lock.go:21, mock_locker.go:16). The field is set
\* to DefaultTTL = 300 s by the constructors; the model scales it down.
TTL == 3

\* The longest a handler invocation may run, in seconds: the Lambda timeout
\* of compute-stack.ts:67 is 30 s, a tenth of DefaultTTL; the model keeps it
\* at a third of the scaled TTL.
Timeout == TTL \div 3

\* The clock stops advancing here.
MaxTime == 4

\* isDescendant is followed this many invocations deep.
MaxDepth == 4

\* uuid.New() is called at most this many times.
MaxUUID == 4

\* Google Drive creates at most this many files.
MaxDriveID == 2

\* The same, counted from a store that is one item short of the item limit.
MaxLimitUUID == 5

\* The providers construct at most this many adapters.
MaxAdapters == 3

\* The same, for each of two adapters that are given the same calls.
MaxTwinUUID == 4

\* The same, where one client builds and takes down a folder tree.
MaxTreeUUID == 8

\* The same, where one client also stars, copies, lists and searches: the
\* tree is one item smaller.
MaxListUUID == MaxTreeUUID - 2

Users == {"alice", "bob"}

Files == {"f1"}

\* Browser tabs / API clients; each request carries the user of its token.
Clients == {"c1", "c2"}

LockerImpls == {"LockManager", "MockLocker"}

Ops == {"AcquireLock", "Heartbeat", "ReleaseLock", "GetLockStatus"}

VARIABLES
    locker,     \* SessionHandler.lockManager: which Locker is wired in
    clock,      \* time.Now().Unix()
    sessions,   \* the EditingSessions table / MockLocker.locks: a set of EditingSession
    calls,      \* per client, the call in flight
    last,       \* outcome of the call that completed most recently
    client,     \* MemoryAdapter.client: "nil" (process-local map) or "dynamodb" (FileStore table)
    files,      \* MemoryAdapter.files / the tenant's FileStore items: a set of File
    BaseFolderID, \* MemoryAdapter.BaseFolderID
    nextUUID,   \* the number of values uuid.New() has handed out, plus one
    acalls,     \* per client, the adapter call in flight
    alast,      \* outcome of the adapter call that completed most recently
    drive,      \* the files of the user's Google Drive, as drive.Service serves them
    driveNextID, \* the number of files Drive has created, plus one
    dlast,      \* outcome of the DriveAdapter call that completed most recently
    twin,       \* a second MemoryAdapter of the other mode, given the same calls
    tokens,     \* the UserTokens table of the AuthService, per user
    stores,     \* memory.Provider.stores: per user, the adapter kept (0: none)
    made,       \* the number of adapters constructed so far
    glast,      \* outcome of the GetAdapter call that returned most recently
    resolved,   \* per user, the adapters GetAdapter has returned so far
    renewed,    \* per user, when its latest AcquireLock or Heartbeat succeeded (-1: none)
    sync,       \* the /sync/check request at hand and the verdicts given on it
    walk,       \* one ListStarred / SearchFiles call's ancestor walk: graph, call stack, cache, lookups
    superseded  \* per Drive file ID, the ETags a successful mutation has replaced

lockVars == <<locker, clock, sessions, calls, last>>

memVars == <<client, files, BaseFolderID, nextUUID, acalls, alast>>

driveVars == <<drive, driveNextID, dlast>>

vars == <<locker, clock, sessions, calls, last,
          client, files, BaseFolderID, nextUUID, acalls, alast,
          drive, driveNextID, dlast, twin,
          tokens, stores, made, glast, resolved, renewed, sync,
          walk, superseded>>

providerVars == <<tokens, stores, made, glast, resolved>>

\* What a step of one part leaves alone
notLockVars == <<memVars, driveVars, twin, providerVars, renewed, sync, walk, superseded>>

notMemVars == <<lockVars, driveVars, twin, providerVars, renewed, sync, walk, superseded>>

notDriveVars == <<lockVars, memVars, twin, providerVars, renewed, sync, walk, superseded>>

notTwinVars == <<lockVars, driveVars, providerVars, renewed, sync, walk, superseded>>

notProviderVars == <<lockVars, driveVars, twin, renewed, sync, walk, superseded>>

----------------------------------------------------------------------------
(* model.EditingSession *)
EditingSession(f, u, e) == [FileID |-> f, UserID |-> u, ExpiresAt |-> e]

\* GetItem / map lookup by the key file_id: the records stored for f.
Lookup(tbl, f) == {s \in tbl : s.FileID = f}

\* PutItem / m.locks[fileID] = session: the key is file_id, so the item
\* replaces whatever was stored under the same key.
PutItem(tbl, item) == {s \in tbl : s.FileID # item.FileID} \cup {item}

\* Mutant: the delete misses the key and removes nothing.
DeleteItemMissesKey(tbl, f) == tbl

\* DeleteItem / delete(m.locks, fileID)
DeleteItem(tbl, f) == {s \in tbl : s.FileID # f}

\* Mutant: the expiry comparison is off by one ("expires_at <= :now").
LockManagerAcquireConditionOffByOne(item, now, u) ==
    \/ item = {}
    \/ \E s \in item : s.ExpiresAt <= now
    \/ \E s \in item : s.UserID = u

\* Mutant: the expiry is never compared, only absence and ownership count.
LockManagerAcquireConditionNoExpiry(item, now, u) ==
    \/ item = {}
    \/ \E s \in item : s.UserID = u

\* lock.go:58  "attribute_not_exists(file_id) OR expires_at < :now OR user_id = :user_id"
LockManagerAcquireCondition(item, now, u) ==
    \/ item = {}
    \/ \E s \in item : s.ExpiresAt < now
    \/ \E s \in item : s.UserID = u

\* mock_locker.go:34-39: refused iff a record exists with ExpiresAt > now and another owner
MockLockerAcquireCondition(item, now, u) ==
    ~ \E s \in item : s.ExpiresAt > now /\ s.UserID # u

\* Mutant: the update is an upsert, it also passes when no item is stored.
HeartbeatConditionUpsert(item, u) == item = {} \/ \E s \in item : s.UserID = u

\* lock.go:92  "user_id = :user_id"; mock_locker.go:55
HeartbeatCondition(item, u) == \E s \in item : s.UserID = u

\* Mutant: the owner is not compared, any stored record is deleted.
ReleaseConditionAnyOwner(item, u) == item # {}

\* lock.go:121  "user_id = :user_id"; mock_locker.go:69
ReleaseCondition(item, u) == \E s \in item : s.UserID = u

\* Mutant: a record is reported expired from the second of its expiry on.
LockStatusOffByOne(item, now) == {s \in item : s.ExpiresAt > now}

\* lock.go:153-159, mock_locker.go:86-91: the record, unless ExpiresAt < now
LockStatus(item, now) == {s \in item : ~ (s.ExpiresAt < now)}

----------------------------------------------------------------------------
(* Errors and HTTP responses *)

ErrLocked == "file is locked by another user"
ErrAcquireFailed == "failed to acquire lock"
ErrHeartbeatFailed == "failed to send heartbeat"
ErrReleaseFailed == "failed to release lock"
ErrNotOwned == "lock not found or not owned by user"
NoError == ""

\* What err.Error() of a failed conditional write reads. lock.go:67 compares it
\* with the bare exception name; the SDK (not part of the repository) wraps the
\* exception in an operation error, so both texts are allowed for.
ConditionalCheckFailedMessages ==
    {"ConditionalCheckFailedException",
     "operation error DynamoDB: PutItem, ConditionalCheckFailedException: The conditional request failed"}

\* lock.go:66-72
LockManagerAcquireError(msg) ==
    IF msg = "ConditionalCheckFailedException" THEN ErrLocked ELSE ErrAcquireFailed

\* SessionHandler: the status code of the response
AcquireStatus(err) ==
    IF err = NoError THEN 200 ELSE IF err = ErrLocked THEN 409 ELSE 500

HeartbeatStatus(err) == IF err = NoError THEN 200 ELSE 404

ReleaseStatus(err) == IF err = NoError THEN 204 ELSE 500

----------------------------------------------------------------------------
IdleCall ==
    [pc |-> "idle", op |-> "", UserID |-> "", FileID |-> "", now |-> 0, started |-> 0,
     item |-> {}, rival |-> FALSE]

NoCall ==
    [op |-> "", UserID |-> "", FileID |-> "", now |-> 0, done |-> 0,
     ok |-> FALSE, err |-> NoError, errSession |-> {}, status |-> 0,
     pre |-> {}, post |-> {}, ret |-> {}, rival |-> FALSE, handover |-> FALSE]

InFlight(c) == calls[c].pc = "inflight"

LockInit ==
    /\ locker \in LockerImpls
    /\ clock = 0
    /\ sessions = {}
    /\ calls = [c \in Clients |-> IdleCall]
    /\ last = NoCall

\* The handler is entered. LockManager reads time.Now() first in AcquireLock and
\* Heartbeat (lock.go:39, :79); its GetLockStatus issues GetItem and reads the
\* clock afterwards (lock.go:134, :154). MockLocker does everything under its mutex.
Invoke(c, u, op, f) ==
    /\ ~ InFlight(c)
    /\ calls' = [calls EXCEPT ![c] =
          [pc |-> "inflight", op |-> op,
           UserID |-> IF op = "GetLockStatus" THEN "" ELSE u, FileID |-> f,
           now |-> IF locker = "LockManager" /\ op \in {"AcquireLock", "Heartbeat"}
                   THEN clock ELSE 0,
           started |-> clock,
           item |-> IF locker = "LockManager" /\ op = "GetLockStatus"
                    THEN Lookup(sessions, f) ELSE {},
           rival |-> FALSE]]
    /\ UNCHANGED <<locker, clock, sessions, last>>

\* The call of client c returns, having read item from the store at time now:
\* the store becomes tbl, the caller gets the session set ret (empty: nil) and
\* the error err. The bookkeeping fields of last and calls are history only:
\*   rival - an AcquireLock of another user took the then unlocked file while
\*           this AcquireLock was in flight, and nothing was written since;
\*   handover - the call completed just before was a successful ReleaseLock
\*           of another user, whose record would still be unexpired now.
Complete(c, now, item, tbl, ret, err, status) ==
    LET f == calls[c].FileID IN
    /\ sessions' = tbl
    /\ last' = [op |-> calls[c].op, UserID |-> calls[c].UserID, FileID |-> f,
                now |-> now, done |-> clock, ok |-> (err = NoError), err |-> err, errSession |-> {},
                status |-> status,
                pre |-> item, post |-> Lookup(tbl, f), ret |-> ret,
                rival |-> calls[c].rival,
                handover |->
                    /\ last.op = "ReleaseLock" /\ last.ok /\ last.FileID = f
                    /\ \E s \in last.pre : s.UserID # calls[c].UserID /\ s.ExpiresAt > clock]
    /\ calls' = [d \in Clients |->
                   IF d = c THEN IdleCall
                   ELSE IF InFlight(d) /\ calls[d].op = "AcquireLock" /\ tbl # sessions
                   THEN [calls[d] EXCEPT !.rival =
                           /\ calls[c].op = "AcquireLock"
                           /\ calls[c].FileID = calls[d].FileID
                           /\ calls[c].UserID # calls[d].UserID
                           /\ LockStatus(item, now) = {}]
                   ELSE calls[d]]
    /\ UNCHANGED <<locker, clock>>

\* The time a lock operation works with: LockManager read it on entry,
\* MockLocker reads it under the mutex.
CallNow(c) == IF locker = "LockManager" THEN calls[c].now ELSE clock

\* Mutant: the caller's own record does not pass the condition.
AcquireConditionNotReentrant(item, now, u) ==
    item = {} \/ \E s \in item : s.ExpiresAt < now

\* Mutant: the write carries no condition.
AcquireConditionMissing(item, now, u) == TRUE

\* h.lockManager.AcquireLock: the condition of the Locker wired in
AcquireCondition(item, now, u) ==
    IF locker = "LockManager" THEN LockManagerAcquireCondition(item, now, u)
    ELSE MockLockerAcquireCondition(item, now, u)

\* LockManager.AcquireLock (lock.go:38-75) / MockLocker.AcquireLock (mock_locker.go:27-48)
AcquireLock(c) ==
    /\ InFlight(c) /\ calls[c].op = "AcquireLock"
    /\ LET f == calls[c].FileID
           u == calls[c].UserID
           now == CallNow(c)
           item == Lookup(sessions, f)
           session == EditingSession(f, u, now + TTL)
       IN IF AcquireCondition(item, now, u)
          THEN Complete(c, now, item, PutItem(sessions, session), {session}, NoError,
                        AcquireStatus(NoError))
          ELSE \E msg \in ConditionalCheckFailedMessages :
                 LET err == IF locker = "LockManager"
                            THEN LockManagerAcquireError(msg) ELSE ErrLocked
                 IN Complete(c, now, item, sessions, {}, err, AcquireStatus(err))

\* LockManager.Heartbeat (lock.go:78-112) / MockLocker.Heartbeat (mock_locker.go:50-62)
Heartbeat(c) ==
    /\ InFlight(c) /\ calls[c].op = "Heartbeat"
    /\ LET f == calls[c].FileID
           u == calls[c].UserID
           now == CallNow(c)
           item == Lookup(sessions, f)
           session == EditingSession(f, u, now + TTL)
           err == IF locker = "LockManager" THEN ErrHeartbeatFailed ELSE ErrNotOwned
       IN IF HeartbeatCondition(item, u)
          THEN Complete(c, now, item, PutItem(sessions, session), {session}, NoError,
                        HeartbeatStatus(NoError))
          ELSE Complete(c, now, item, sessions, {}, err, HeartbeatStatus(err))

\* LockManager.ReleaseLock (lock.go:115-130) / MockLocker.ReleaseLock (mock_locker.go:64-75)
ReleaseLock(c) ==
    /\ InFlight(c) /\ calls[c].op = "ReleaseLock"
    /\ LET f == calls[c].FileID
           u == calls[c].UserID
           item == Lookup(sessions, f)
           err == IF locker = "LockManager" THEN ErrReleaseFailed ELSE ErrNotOwned
       IN IF ReleaseCondition(item, u)
          THEN Complete(c, clock, item, DeleteItem(sessions, f), {}, NoError,
                        ReleaseStatus(NoError))
          ELSE Complete(c, clock, item, sessions, {}, err, ReleaseStatus(err))

\* LockManager.GetLockStatus (lock.go:133-160) / MockLocker.GetLockStatus (mock_locker.go:77-92)
GetLockStatus(c) ==
    /\ InFlight(c) /\ calls[c].op = "GetLockStatus"
    /\ LET f == calls[c].FileID
           item == IF locker = "LockManager" THEN calls[c].item ELSE Lookup(sessions, f)
       IN Complete(c, clock, item, sessions, LockStatus(item, clock), NoError, 200)

\* A second passes. No invocation outlives the handler timeout.
Tick ==
    /\ clock < MaxTime
    /\ \A c \in Clients : InFlight(c) => clock + 1 - calls[c].started <= Timeout
    /\ clock' = clock + 1
    /\ UNCHANGED <<locker, sessions, calls, last>>

\* DynamoDB's time-to-live sweep on expires_at (database-stack.ts:60) removes
\* an expired item at some later moment of its own choosing.
Evict ==
    /\ locker = "LockManager"
    /\ \E s \in sessions :
         /\ s.ExpiresAt < clock
         /\ sessions' = sessions \ {s}
    /\ UNCHANGED <<locker, clock, calls, last>>

LockNext ==
    \/ \E c \in Clients, u \in Users, op \in Ops, f \in Files : Invoke(c, u, op, f)
    \/ \E c \in Clients : AcquireLock(c)
    \/ \E c \in Clients : Heartbeat(c)
    \/ \E c \in Clients : ReleaseLock(c)
    \/ \E c \in Clients : GetLockStatus(c)
    \/ Tick
    \/ Evict

----------------------------------------------------------------------------
(***************************************************************************)
(* Ephemeral adapter (adapter/memory/memory.go).  With client = nil the     *)
(* adapter keeps its items in the map m.files, each operation under m.mu;   *)
(* with a DynamoDB client it reads the item (GetFile) and writes it back    *)
(* (PutItem) in two separate requests.  A name is a sequence of tokens, the *)
(* last of which may be the extension ".md"; uuid.New() hands out values    *)
(* that were never handed out before.                                       *)
(***************************************************************************)

mdExt == ".md"

maxDemoContentSize == 262144

maxDemoTitleLength == 255

maxDemoItemCount == 50

FolderMIME == "application/vnd.google-apps.folder"

MarkdownMIME == "text/markdown"

ErrNotFound == "resource not found"

ErrPreconditionFailed == "precondition failed"

ErrContentTooLarge == "content too large"

ErrNameTooLong == "name too long"

ErrItemLimit == "item limit reached for demo mode"

AdapterModes == {"nil", "dynamodb"}

\* Contents and names callers pass: to the create operations, and to
\* SaveFile and RenameFile.
NewContents == {"x", "oversize"}

Contents == {"x", "y", "oversize"}

NewNames == {<<"a">>, <<"overlong">>}

Names == {<<"a">>, <<"b", ".md">>, <<"overlong">>}

\* len(content)
ContentLen(content) ==
    IF content = "" THEN 0
    ELSE IF content = "oversize" THEN maxDemoContentSize + 1 ELSE 1

\* len(name)
TokenLen(t) == IF t = "overlong" THEN maxDemoTitleLength + 1 ELSE IF t = mdExt THEN 3 ELSE 1

NameLen(name) ==
    IF Len(name) = 0 THEN 0
    ELSE IF Len(name) = 1 THEN TokenLen(name[1])
    ELSE TokenLen(name[1]) + TokenLen(name[2])

\* strings.HasSuffix(name, mdExt)
HasSuffix(name) == Len(name) > 0 /\ name[Len(name)] = mdExt

\* toMemoryName (memory.go:23-28)
toMemoryName(name) == IF HasSuffix(name) THEN name ELSE Append(name, mdExt)

\* fromMemoryName (memory.go:31-33): strings.TrimSuffix
fromMemoryName(name) == IF HasSuffix(name) THEN SubSeq(name, 1, Len(name) - 1) ELSE name

\* uuid.New().String() for the k-th call
UUID(k) == ToString(k)

\* adapter.File
File(id, name, mime, content, etag, parents, starred) ==
    [ID |-> id, Name |-> name, MIMEType |-> mime, Size |-> ContentLen(content),
     ETag |-> etag, Parents |-> parents, Starred |-> starred, Content |-> content]

\* adapter.FileMetadata of a File
FileMetadata(f) ==
    [ID |-> f.ID, Name |-> f.Name, MIMEType |-> f.MIMEType, Size |-> f.Size,
     ETag |-> f.ETag, Parents |-> f.Parents, Starred |-> f.Starred]

\* m.files[fileID] / GetItem by pk
FileItems(store, id) == {f \in store : f.ID = id}

\* m.files[id] = f / PutItem: pk is the item's ID
PutFile(store, f) == {g \in store : g.ID # f.ID} \cup {f}

\* getFileMap (memory.go:633-648): the name of a non-folder is stripped
getFileMap(store, id) ==
    {IF f.MIMEType # FolderMIME THEN [f EXCEPT !.Name = fromMemoryName(f.Name)] ELSE f :
        f \in FileItems(store, id)}

\* GetFile with a client (memory.go:185-215): the name is always stripped
getFileDynamo(store, id) ==
    {[f EXCEPT !.Name = fromMemoryName(f.Name)] : f \in FileItems(store, id)}

\* MemoryAdapter.GetFile (memory.go:180-216)
GetFile(id) == IF client = "nil" THEN getFileMap(files, id) ELSE getFileDynamo(files, id)

\* Mutant: the ETag comparison is dropped, every write goes through.
ETagMismatchIgnored(f, etag) == FALSE

\* memory.go:231, :657  etag != "" && f.ETag != etag
ETagMismatch(f, etag) == etag # "" /\ f.ETag # etag

\* saveFileMap (memory.go:660-665): the update of the stored file
saveFileMap(f, content, etag) ==
    [f EXCEPT !.Content = content, !.ETag = etag, !.Size = ContentLen(content),
              !.Name = toMemoryName(f.Name)]

\* SaveFile with a client (memory.go:235-254): the item written from the file
\* GetFile returned; the item carries no starred attribute
saveFileItem(f, content, etag) ==
    [f EXCEPT !.Content = content, !.ETag = etag, !.Size = ContentLen(content),
              !.Name = toMemoryName(f.Name), !.Starred = FALSE]

\* renameFileMap (memory.go:992-994) and RenameFile with a client (memory.go:883-901)
renameFile(f, newName, etag) == [f EXCEPT !.Name = toMemoryName(newName), !.ETag = etag]

\* Mutant: the star is toggled without a new ETag.
setStarredKeepsETag(f, starred, etag) == [f EXCEPT !.Starred = starred]

\* setStarredMap (memory.go:976-978) and SetStarred with a client (memory.go:932-948)
setStarred(f, starred, etag) == [f EXCEPT !.Starred = starred, !.ETag = etag]

\* The characters of a name token or of a content; a token not listed is a
\* single character.
Chars(t) ==
    IF t = mdExt THEN <<".", "m", "d">>
    ELSE IF t = "Copy of " THEN <<"C", "o", "p", "y", " ", "o", "f", " ">>
    ELSE IF t = "" THEN <<>> ELSE <<t>>

\* The string a name stands for, character by character
RECURSIVE NameChars(_)
NameChars(name) ==
    IF Len(name) = 0 THEN <<>> ELSE Chars(name[1]) \o NameChars(Tail(name))

\* strings.ToLower, on the letters in use
ToLower(s) ==
    [i \in 1..Len(s) |->
        IF s[i] = "A" THEN "a" ELSE IF s[i] = "C" THEN "c"
        ELSE IF s[i] = "M" THEN "m" ELSE IF s[i] = "X" THEN "x" ELSE s[i]]

\* strings.Contains
Contains(s, substr) ==
    \E i \in 1..(Len(s) + 1) :
        i + Len(substr) - 1 <= Len(s) /\ SubSeq(s, i, i + Len(substr) - 1) = substr

\* containsIgnoreCase (memory.go:412-414)
containsIgnoreCase(s, substr) == Contains(ToLower(s), ToLower(substr))

\* The queries callers search for
Queries == {<<"A">>, <<"m", "d">>, <<"X">>, <<"z">>}

\* The folder the recursive listings are scoped to (memory.go:1196-1199, :1306-1309)
targetFolder == IF BaseFolderID # "" THEN BaseFolderID ELSE "root"

\* isDescendant (memory.go:1114-1133); allItems is the store, looked up by ID
RECURSIVE isDescendant(_, _, _)
isDescendant(fileParents, targetFolderID, allItems) ==
    IF targetFolderID = "root" THEN TRUE
    ELSE \E p \in fileParents :
            \/ p = targetFolderID
            \/ /\ p # "" /\ p # "root"
               /\ \E g \in allItems :
                     g.ID = p /\ isDescendant(g.Parents, targetFolderID, allItems)

\* The metadata a listing hands back: the name of a non-folder is stripped
\* (memory.go:625-629, :1214-1218, :1341-1345)
ListedMetadata(f) ==
    IF f.MIMEType # FolderMIME
    THEN [FileMetadata(f) EXCEPT !.Name = fromMemoryName(f.Name)]
    ELSE FileMetadata(f)

\* listFilesMap (memory.go:606-631)
listFilesMap(store, folderID) ==
    {ListedMetadata(f) : f \in {g \in store :
        folderID \in g.Parents \/ (folderID = "root" /\ g.Parents = {})}}

\* ListFiles with a client (memory.go:121-177): a non-folder whose stored name
\* lacks the suffix is skipped
listFilesDynamo(store, folderID) ==
    {ListedMetadata(f) : f \in {g \in store :
        /\ g.MIMEType = FolderMIME \/ HasSuffix(g.Name)
        /\ folderID \in g.Parents \/ (folderID = "root" /\ g.Parents = {})}}

\* listStarredMap (memory.go:1195-1226), ListStarred with a client (memory.go:1135-1193)
listStarred(store, target) ==
    {ListedMetadata(f) : f \in {g \in store :
        /\ g.Starred
        /\ g.MIMEType = FolderMIME \/ HasSuffix(g.Name)
        /\ isDescendant(g.Parents, target, store)}}

\* listRootFoldersMap (memory.go:1092-1111): the folders with no parent or
\* with the parent "root", as they are stored
listRootFoldersMap(store) ==
    {FileMetadata(f) : f \in {g \in store :
        /\ g.MIMEType = FolderMIME
        /\ g.Parents = {} \/ "root" \in g.Parents}}

\* ListRootFolders with a client (memory.go:1043-1089): the parent may also be
\* the base folder
listRootFoldersDynamo(store, targetRootID) ==
    {FileMetadata(f) : f \in {g \in store :
        /\ g.MIMEType = FolderMIME
        /\ g.Parents = {} \/ targetRootID \in g.Parents \/ "root" \in g.Parents}}

\* searchFilesMap (memory.go:1305-1350), SearchFiles with a client (memory.go:1229-1303)
searchFiles(store, target, query) ==
    {ListedMetadata(f) : f \in {g \in store :
        /\ g.MIMEType # FolderMIME
        /\ HasSuffix(g.Name)
        /\ isDescendant(g.Parents, target, store)
        /\ \/ containsIgnoreCase(NameChars(g.Name), query)
           \/ containsIgnoreCase(Chars(g.Content), query)}}

\* Mutant: no children are looked for, the delete is not recursive.
ChildrenIgnored(store, id) == {}

\* Mutant: every stored file is taken for a child of a folder.
ChildrenAndFiles(store, id) ==
    {f.ID : f \in {g \in store : id \in g.Parents}} \cup
    {f.ID : f \in {g \in store : /\ g.MIMEType # FolderMIME
                                  /\ \E h \in store : h.ID = id /\ h.MIMEType = FolderMIME}}

\* The stored items that name id as a parent (memory.go:504-512, :752-765)
Children(store, id) == {f.ID : f \in {g \in store : id \in g.Parents}}

\* duplicateFileMap (memory.go:786-805), DuplicateFile with a client
\* (memory.go:549-579): the copy of orig
duplicateFile(orig, newID, etag) ==
    File(newID, toMemoryName(<<"Copy of ">> \o orig.Name), orig.MIMEType, orig.Content,
         etag, orig.Parents, FALSE)

\* The top-level folders called name: ensureRootFolderMap (memory.go:710-723) looks
\* at the stored names, EnsureRootFolder with a client (memory.go:422-431) at
\* what ListFiles("root") hands back
rootFolders(name) ==
    IF client = "nil"
    THEN {f.ID : f \in {g \in files :
            /\ g.Name = name /\ g.MIMEType = FolderMIME
            /\ g.Parents = {} \/ "root" \in g.Parents}}
    ELSE {m.ID : m \in {g \in listFilesDynamo(files, "root") :
            g.Name = name /\ g.MIMEType = FolderMIME}}

\* ensureRootFolderMap (memory.go:725-737), createRootFolder (memory.go:438-479)
createRootFolder(name, id, etag) == File(id, name, FolderMIME, "", etag, {"root"}, FALSE)

IdleACall ==
    [pc |-> "idle", op |-> "", ID |-> "", content |-> "", etag |-> "", name |-> <<>>,
     starred |-> FALSE, read |-> {}, stack |-> <<>>, before |-> {}]

NoACall ==
    [op |-> "", ID |-> "", content |-> "", etag |-> "", ok |-> FALSE, err |-> NoError,
     pre |-> {}, old |-> {}, post |-> {}, ret |-> {}, before |-> {}, name |-> <<>>]

AInFlight(c) == acalls[c].pc # "idle"

MemInit ==
    /\ client \in AdapterModes
    /\ files = {}
    /\ BaseFolderID = ""
    /\ nextUUID = 1
    /\ acalls = [c \in Clients |-> IdleACall]
    /\ alast = NoACall

\* The adapter call of client c returns. pre is the stored item as the call
\* read it (GetFile with a client), old the stored item just before the call's write (or its return,
\* if it writes nothing), store the items after the call, ret the metadata
\* handed back, uuids the number of uuid.New() calls made; before is the
\* whole store when the call was entered (DeleteFile) or made its last step,
\* name the name or query the caller passed.
AComplete(c, op, id, content, etag, pre, store, ret, err, uuids, name) ==
    /\ files' = store
    /\ nextUUID' = nextUUID + uuids
    /\ alast' = [op |-> op, ID |-> id, content |-> content, etag |-> etag,
                 ok |-> (err = NoError), err |-> err,
                 pre |-> pre, old |-> FileItems(files, id),
                 post |-> FileItems(store, id), ret |-> ret,
                 before |-> IF acalls[c].pc = "delete" THEN acalls[c].before ELSE files,
                 name |-> name]
    /\ acalls' = [acalls EXCEPT ![c] = IdleACall]
    /\ UNCHANGED <<client, BaseFolderID>>

\* With a client: GetFile has returned the file read, the PutItem is to come.
AContinue(c, op, id, content, etag, name, starred, read) ==
    /\ acalls' = [acalls EXCEPT ![c] =
                    [pc |-> "put", op |-> op, ID |-> id, content |-> content,
                     etag |-> etag, name |-> name, starred |-> starred, read |-> read,
                     stack |-> <<>>, before |-> {}]]
    /\ UNCHANGED <<client, files, BaseFolderID, nextUUID, alast>>

\* MemoryAdapter.CreateFile (memory.go:274-344), createFileMap (memory.go:668-686)
CreateFile(c, name, content, folderID) ==
    /\ ~ AInFlight(c)
    /\ LET id == UUID(nextUUID)
           targetFolderID == IF folderID # "" THEN folderID
                             ELSE IF BaseFolderID # "" THEN BaseFolderID ELSE "root"
           f == File(id, toMemoryName(name), MarkdownMIME, content, UUID(nextUUID + 1),
                     {targetFolderID}, FALSE)
           meta == IF client = "nil" THEN FileMetadata(f)
                   ELSE [FileMetadata(f) EXCEPT !.Name = fromMemoryName(f.Name)]
       IN IF NameLen(name) > maxDemoTitleLength
          THEN AComplete(c, "CreateFile", "", content, "", {}, files, {}, ErrNameTooLong, 0, name)
          ELSE IF ContentLen(content) > maxDemoContentSize
          THEN AComplete(c, "CreateFile", "", content, "", {}, files, {}, ErrContentTooLarge, 0, name)
          ELSE IF Cardinality(files) >= maxDemoItemCount
          THEN AComplete(c, "CreateFile", "", content, "", {}, files, {}, ErrItemLimit, 0, name)
          ELSE AComplete(c, "CreateFile", id, content, "", {}, PutFile(files, f), {meta},
                         NoError, 2, name)

\* MemoryAdapter.CreateFolder (memory.go:346-410), createFolderMap (memory.go:688-705)
CreateFolder(c, name, parents) ==
    /\ ~ AInFlight(c)
    /\ LET id == UUID(nextUUID)
           targetParents == IF parents # {} THEN parents
                            ELSE IF BaseFolderID # "" THEN {BaseFolderID} ELSE {"root"}
           f == File(id, name, FolderMIME, "", UUID(nextUUID + 1), targetParents, FALSE)
       IN IF NameLen(name) > maxDemoTitleLength
          THEN AComplete(c, "CreateFolder", "", "", "", {}, files, {}, ErrNameTooLong, 0, name)
          ELSE IF Cardinality(files) >= maxDemoItemCount
          THEN AComplete(c, "CreateFolder", "", "", "", {}, files, {}, ErrItemLimit, 0, name)
          ELSE AComplete(c, "CreateFolder", id, "", "", {}, PutFile(files, f),
                         {FileMetadata(f)}, NoError, 2, name)

\* MemoryAdapter.SaveFile (memory.go:218-272), saveFileMap (memory.go:650-666).
\* With a client the item is read here and written by PutItemStep.
SaveFile(c, id, content, etag) ==
    /\ ~ AInFlight(c)
    /\ LET pre == FileItems(files, id)
       IN IF ContentLen(content) > maxDemoContentSize
          THEN AComplete(c, "SaveFile", id, content, etag, pre, files, {}, ErrContentTooLarge, 0, <<>>)
          ELSE IF pre = {}
          THEN AComplete(c, "SaveFile", id, content, etag, pre, files, {}, ErrNotFound, 0, <<>>)
          ELSE IF \E f \in pre : ETagMismatch(f, etag)
          THEN AComplete(c, "SaveFile", id, content, etag, pre, files, {},
                         ErrPreconditionFailed, 0, <<>>)
          ELSE IF client = "nil"
          THEN \E f \in pre :
                 LET g == saveFileMap(f, content, UUID(nextUUID))
                 IN AComplete(c, "SaveFile", id, content, etag, pre, PutFile(files, g),
                              {FileMetadata(g)}, NoError, 1, <<>>)
          ELSE AContinue(c, "SaveFile", id, content, etag, <<>>, FALSE, getFileDynamo(files, id))

\* MemoryAdapter.RenameFile (memory.go:868-918), renameFileMap (memory.go:983-997)
RenameFile(c, id, newName) ==
    /\ ~ AInFlight(c)
    /\ LET pre == FileItems(files, id)
       IN IF NameLen(newName) > maxDemoTitleLength
          THEN AComplete(c, "RenameFile", id, "", "", pre, files, {}, ErrNameTooLong, 0, newName)
          ELSE IF pre = {}
          THEN AComplete(c, "RenameFile", id, "", "", pre, files, {}, ErrNotFound, 0, newName)
          ELSE IF client = "nil"
          THEN \E f \in pre :
                 LET g == renameFile(f, newName, UUID(nextUUID))
                 IN AComplete(c, "RenameFile", id, "", "", pre, PutFile(files, g),
                              {FileMetadata(g)}, NoError, 1, newName)
          ELSE AContinue(c, "RenameFile", id, "", "", newName, FALSE, getFileDynamo(files, id))

\* MemoryAdapter.SetStarred (memory.go:920-965), setStarredMap (memory.go:967-981)
SetStarred(c, id, starred) ==
    /\ ~ AInFlight(c)
    /\ LET pre == FileItems(files, id)
       IN IF pre = {}
          THEN AComplete(c, "SetStarred", id, "", "", pre, files, {}, ErrNotFound, 0, <<>>)
          ELSE IF client = "nil"
          THEN \E f \in pre :
                 LET g == setStarred(f, starred, UUID(nextUUID))
                 IN AComplete(c, "SetStarred", id, "", "", pre, PutFile(files, g),
                              {FileMetadata(g)}, NoError, 1, <<>>)
          ELSE AContinue(c, "SetStarred", id, "", "", <<>>, starred, getFileDynamo(files, id))

\* The PutItem that ends SaveFile, RenameFile, SetStarred and DuplicateFile
\* with a client (memory.go:237-271, :883-917, :932-964, :549-601): the item is
\* built from the file GetFile returned. SaveFile and DuplicateFile hand back
\* the metadata with the name stripped, the other two the metadata as written.
PutItemStep(c) ==
    /\ acalls[c].pc = "put"
    /\ \E f \in acalls[c].read :
         LET call == acalls[c]
             new == UUID(nextUUID)
             g == IF call.op = "SaveFile" THEN saveFileItem(f, call.content, new)
                  ELSE IF call.op = "RenameFile" THEN renameFile(f, call.name, new)
                  ELSE IF call.op = "SetStarred" THEN setStarred(f, call.starred, new)
                  ELSE duplicateFile(f, new, UUID(nextUUID + 1))
             meta == IF call.op = "SaveFile"
                     THEN [FileMetadata(g) EXCEPT !.Name = fromMemoryName(f.Name),
                                                  !.Starred = f.Starred]
                     ELSE IF call.op = "DuplicateFile"
                     THEN [FileMetadata(g) EXCEPT !.Name = fromMemoryName(g.Name)]
                     ELSE FileMetadata(g)
         IN AComplete(c, call.op, call.ID, call.content, call.etag, call.read,
                      PutFile(files, g), {meta}, NoError,
                      IF call.op = "DuplicateFile" THEN 2 ELSE 1, call.name)

\* MemoryAdapter.DuplicateFile (memory.go:533-602), duplicateFileMap (memory.go:777-809)
DuplicateFile(c, id) ==
    /\ ~ AInFlight(c)
    /\ LET pre == FileItems(files, id)
       IN IF Cardinality(files) >= maxDemoItemCount
          THEN AComplete(c, "DuplicateFile", id, "", "", pre, files, {}, ErrItemLimit, 0, <<>>)
          ELSE IF pre = {}
          THEN AComplete(c, "DuplicateFile", id, "", "", pre, files, {}, ErrNotFound, 0, <<>>)
          ELSE IF client = "nil"
          THEN \E orig \in pre :
                 LET g == duplicateFile(orig, UUID(nextUUID), UUID(nextUUID + 1))
                 IN AComplete(c, "DuplicateFile", id, "", "", pre, PutFile(files, g),
                              {[FileMetadata(g) EXCEPT !.Name = fromMemoryName(g.Name)]},
                              NoError, 2, <<>>)
          ELSE AContinue(c, "DuplicateFile", id, "", "", <<>>, FALSE, getFileDynamo(files, id))

\* One invocation of deleteFileMap / DeleteFile on the call stack: the item
\* to delete and the children still to be deleted first.
Frame(store, id) == [ID |-> id, todo |-> Children(store, id)]

\* MemoryAdapter.DeleteFile (memory.go:481-531) is entered and scans the items;
\* deleteFileMap (memory.go:741-765) checks existence and collects the children
\* under the mutex, then unlocks.
DeleteFile(c, id) ==
    /\ ~ AInFlight(c)
    /\ IF client = "nil" /\ FileItems(files, id) = {}
       THEN AComplete(c, "DeleteFile", id, "", "", {}, files, {}, ErrNotFound, 0, <<>>)
       ELSE /\ acalls' = [acalls EXCEPT ![c] =
                   [IdleACall EXCEPT !.pc = "delete", !.op = "DeleteFile", !.ID = id,
                                     !.read = FileItems(files, id),
                                     !.stack = <<Frame(files, id)>>, !.before = files]]
            /\ UNCHANGED <<client, files, BaseFolderID, nextUUID, alast>>

\* The next step of the innermost invocation: it calls itself for one more
\* child (memory.go:767-772, :503-518; deleteFileMap ignores the child's
\* NotFound), or deletes its own item and returns (memory.go:774, :521-530).
DeleteStep(c) ==
    /\ acalls[c].pc = "delete"
    /\ LET call == acalls[c]
           n == Len(call.stack)
           top == call.stack[n]
       IN IF top.todo # {}
          THEN /\ \E child \in top.todo :
                    LET rest == [call.stack EXCEPT ![n].todo = top.todo \ {child}]
                    IN acalls' = [acalls EXCEPT ![c].stack =
                          IF client = "nil" /\ FileItems(files, child) = {}
                          THEN rest ELSE Append(rest, Frame(files, child))]
               /\ UNCHANGED <<client, files, BaseFolderID, nextUUID, alast>>
          ELSE IF n > 1
          THEN /\ files' = {f \in files : f.ID # top.ID}
               /\ acalls' = [acalls EXCEPT ![c].stack = SubSeq(call.stack, 1, n - 1)]
               /\ UNCHANGED <<client, BaseFolderID, nextUUID, alast>>
          ELSE AComplete(c, "DeleteFile", call.ID, "", "", call.read,
                         {f \in files : f.ID # top.ID}, {}, NoError, 0, <<>>)

\* MemoryAdapter.EnsureRootFolder (memory.go:416-436), ensureRootFolderMap
\* (memory.go:707-739): a folder found is returned, whichever the iteration
\* meets first; with a client the folder is created in a request of its own.
EnsureRootFolder(c, name) ==
    /\ ~ AInFlight(c)
    /\ IF rootFolders(name) # {}
       THEN \E id \in rootFolders(name) :
              AComplete(c, "EnsureRootFolder", id, "", "", FileItems(files, id), files,
                        {[ID |-> id]}, NoError, 0, name)
       ELSE IF client = "nil"
       THEN LET g == createRootFolder(name, UUID(nextUUID), UUID(nextUUID + 1))
            IN AComplete(c, "EnsureRootFolder", g.ID, "", "", {}, PutFile(files, g),
                         {[ID |-> g.ID]}, NoError, 2, name)
       ELSE /\ acalls' = [acalls EXCEPT ![c] =
                   [IdleACall EXCEPT !.pc = "create", !.op = "EnsureRootFolder",
                                     !.name = name]]
            /\ UNCHANGED <<client, files, BaseFolderID, nextUUID, alast>>

\* createRootFolder (memory.go:438-479): the PutItem of the new folder
CreateRootFolderStep(c) ==
    /\ acalls[c].pc = "create"
    /\ LET g == createRootFolder(acalls[c].name, UUID(nextUUID), UUID(nextUUID + 1))
       IN AComplete(c, "EnsureRootFolder", g.ID, "", "", {}, PutFile(files, g),
                    {[ID |-> g.ID]}, NoError, 2, acalls[c].name)

\* MemoryAdapter.ListStarred (memory.go:1135-1193), listStarredMap (memory.go:1195-1226)
ListStarred(c) ==
    /\ ~ AInFlight(c)
    /\ AComplete(c, "ListStarred", "", "", "", {}, files,
                 listStarred(files, targetFolder), NoError, 0, <<>>)

\* MemoryAdapter.SearchFiles (memory.go:1229-1303), searchFilesMap (memory.go:1305-1350)
SearchFiles(c, query) ==
    /\ ~ AInFlight(c)
    /\ AComplete(c, "SearchFiles", "", "", "", {}, files,
                 searchFiles(files, targetFolder, query), NoError, 0, query)

\* MemoryAdapter.ListRootFolders (memory.go:1039-1090)
ListRootFolders(c) ==
    /\ ~ AInFlight(c)
    /\ AComplete(c, "ListRootFolders", "", "", "", {}, files,
                 IF client = "nil" THEN listRootFoldersMap(files)
                 ELSE listRootFoldersDynamo(files, targetFolder),
                 NoError, 0, <<>>)

\* Provider.GetAdapter (memory.go:1015-1037) copies the base folder of the
\* user's token, as UpdateBaseFolderID last set it, into the adapter.
GetAdapter(baseFolderID) ==
    /\ BaseFolderID # baseFolderID
    /\ BaseFolderID' = baseFolderID
    /\ UNCHANGED <<client, files, nextUUID, acalls, alast>>

----------------------------------------------------------------------------
(***************************************************************************)
(* Google Drive adapter (adapter/googledrive/drive.go).  The adapter keeps  *)
(* no state of its own: every call is one or two requests to the Drive     *)
(* service, whose files the model holds in drive.  The ETag the adapter     *)
(* hands back is the file's md5Checksum, which Drive computes from the      *)
(* content alone and leaves empty for folders.                              *)
(***************************************************************************)

\* drive.File.Md5Checksum: a digest of the content, nothing else
Md5Checksum(mime, content) == IF mime = FolderMIME THEN "" ELSE "md5:" \o content

\* toDriveName (drive.go:22-27), fromDriveName (drive.go:30-32)
toDriveName(name) == IF HasSuffix(name) THEN name ELSE Append(name, mdExt)

fromDriveName(name) == IF HasSuffix(name) THEN SubSeq(name, 1, Len(name) - 1) ELSE name

DriveNames == {<<"a">>, <<"b">>}

DriveContents == {"x", "y"}

\* The file ID Drive assigns to its k-th file
DriveID(k) == "drive" \o ToString(k)

DriveFile(id, name, mime, content, starred) ==
    [ID |-> id, Name |-> name, MIMEType |-> mime, Content |-> content, Starred |-> starred]

\* The adapter.FileMetadata built from the response (drive.go:252-262, :387-397, :414-424)
DriveMetadata(res) ==
    [ID |-> res.ID, Name |-> fromDriveName(res.Name), MIMEType |-> res.MIMEType,
     ETag |-> Md5Checksum(res.MIMEType, res.Content)]

NoDCall == [op |-> "", ID |-> "", ok |-> FALSE, pre |-> {}, ret |-> {}]

DriveInit ==
    /\ drive = {}
    /\ driveNextID = 1
    /\ dlast = NoDCall

DriveItems(id) == {f \in drive : f.ID = id}

\* The call returns: Drive holds store, the caller gets ret.
DComplete(op, id, store, ret, ok) ==
    /\ drive' = store
    /\ dlast' = [op |-> op, ID |-> id, ok |-> ok,
                 pre |-> {DriveMetadata(f) : f \in DriveItems(id)}, ret |-> ret]

\* DriveAdapter.CreateFile (drive.go:282-316)
DriveCreateFile(name, content) ==
    /\ driveNextID <= MaxDriveID
    /\ LET res == DriveFile(DriveID(driveNextID), toDriveName(name), MarkdownMIME,
                            content, FALSE)
       IN DComplete("CreateFile", res.ID, drive \cup {res}, {DriveMetadata(res)}, TRUE)
    /\ driveNextID' = driveNextID + 1

\* DriveAdapter.CreateFolder (drive.go:98-131)
DriveCreateFolder(name) ==
    /\ driveNextID <= MaxDriveID
    /\ LET res == DriveFile(DriveID(driveNextID), name, FolderMIME, "", FALSE)
       IN DComplete("CreateFolder", res.ID, drive \cup {res},
                    {[DriveMetadata(res) EXCEPT !.Name = res.Name]}, TRUE)
    /\ driveNextID' = driveNextID + 1

\* Files.Update: the file id with the fields of the request changed
DriveUpdate(id, res) == {f \in drive : f.ID # id} \cup {res}

\* DriveAdapter.SaveFile (drive.go:230-263): an If-Match header carries the
\* etag; whether the service acts on it is the service's business, so a stale
\* etag may or may not be refused.
DriveSaveFile(id, content, etag) ==
    /\ IF DriveItems(id) = {}
       THEN DComplete("SaveFile", id, drive, {}, FALSE)
       ELSE \E f \in DriveItems(id), honoured \in BOOLEAN :
              IF honoured /\ etag # "" /\ etag # Md5Checksum(f.MIMEType, f.Content)
              THEN DComplete("SaveFile", id, drive, {}, FALSE)
              ELSE LET res == [f EXCEPT !.Content = content]
                   IN DComplete("SaveFile", id, DriveUpdate(id, res),
                                {DriveMetadata(res)}, TRUE)
    /\ UNCHANGED driveNextID

\* DriveAdapter.RenameFile (drive.go:361-398)
DriveRenameFile(id, newName) ==
    /\ IF DriveItems(id) = {}
       THEN DComplete("RenameFile", id, drive, {}, FALSE)
       ELSE \E current \in DriveItems(id) :
              LET name == IF current.MIMEType # FolderMIME
                          THEN toDriveName(newName) ELSE newName
                  res == [current EXCEPT !.Name = name]
              IN DComplete("RenameFile", id, DriveUpdate(id, res), {DriveMetadata(res)}, TRUE)
    /\ UNCHANGED driveNextID

\* DriveAdapter.SetStarred (drive.go:401-426)
DriveSetStarred(id, starred) ==
    /\ IF DriveItems(id) = {}
       THEN DComplete("SetStarred", id, drive, {}, FALSE)
       ELSE \E f \in DriveItems(id) :
              LET res == [f EXCEPT !.Starred = starred]
              IN DComplete("SetStarred", id, DriveUpdate(id, res), {DriveMetadata(res)}, TRUE)
    /\ UNCHANGED driveNextID

DriveIDs == {f.ID : f \in drive} \cup {DriveID(0)}

DriveETags == {Md5Checksum(MarkdownMIME, content) : content \in DriveContents} \cup {""}

DriveNext ==
    \/ \E name \in DriveNames, content \in DriveContents :
          DriveCreateFile(name, content) /\ UNCHANGED notDriveVars
    \/ \E name \in DriveNames : DriveCreateFolder(name) /\ UNCHANGED notDriveVars
    \/ \E id \in DriveIDs, content \in DriveContents, etag \in DriveETags :
          DriveSaveFile(id, content, etag) /\ UNCHANGED notDriveVars
    \/ \E id \in DriveIDs, newName \in DriveNames :
          DriveRenameFile(id, newName) /\ UNCHANGED notDriveVars
    \/ \E id \in DriveIDs, starred \in BOOLEAN :
          DriveSetStarred(id, starred) /\ UNCHANGED notDriveVars

\* What a caller may present: the ID of a stored item or one that does not
\* exist; an ETag handed out so far, or none.
KnownIDs == {f.ID : f \in files} \cup {"nonexistent-id"}

KnownETags == ({UUID(k) : k \in 1..(nextUUID - 1)} \ {f.ID : f \in files}) \cup {""}

\* Steps are taken while fewer than max values of uuid.New() are handed out,
\* and hand out no more than max in all.
UUIDsWithin(max) == nextUUID <= max /\ nextUUID' <= max + 1

MemNext ==
    \/ \E c \in Clients, name \in NewNames, content \in NewContents :
          CreateFile(c, name, content, "root") /\ UUIDsWithin(MaxUUID) /\ UNCHANGED notMemVars
    \/ \E c \in Clients, name \in NewNames :
          CreateFolder(c, name, {"root"}) /\ UUIDsWithin(MaxUUID) /\ UNCHANGED notMemVars
    \/ \E c \in Clients, id \in KnownIDs, content \in Contents, etag \in KnownETags :
          SaveFile(c, id, content, etag) /\ UUIDsWithin(MaxUUID) /\ UNCHANGED notMemVars
    \/ \E c \in Clients, id \in KnownIDs, newName \in Names :
          RenameFile(c, id, newName) /\ UUIDsWithin(MaxUUID) /\ UNCHANGED notMemVars
    \/ \E c \in Clients, id \in KnownIDs, starred \in BOOLEAN :
          SetStarred(c, id, starred) /\ UUIDsWithin(MaxUUID) /\ UNCHANGED notMemVars
    \/ \E c \in Clients : PutItemStep(c) /\ UUIDsWithin(MaxUUID) /\ UNCHANGED notMemVars

\* One client at a time works on a tree of folders: what it may pass.
TreeClients == {"c1"}

FolderIDs == {f.ID : f \in {g \in files : g.MIMEType = FolderMIME}}

\* The folders a user picks the base folder from: those at the top level.
TopFolderIDs == {f.ID : f \in {g \in files : g.MIMEType = FolderMIME /\ "root" \in g.Parents}}

TreeNames == {<<"a">>}

TreeContents == {"x"}

\* One client at a time hands out no more than max values of uuid.New().
TreeUUIDs(max) == nextUUID' <= max + 1

TreeNext ==
    \/ \E c \in TreeClients, name \in TreeNames, p \in {"root"} \cup FolderIDs :
          CreateFolder(c, name, {p}) /\ TreeUUIDs(MaxListUUID) /\ UNCHANGED notMemVars
    \/ \E c \in TreeClients, name \in TreeNames, content \in TreeContents,
          p \in {"root"} \cup FolderIDs :
          CreateFile(c, name, content, p) /\ TreeUUIDs(MaxListUUID) /\ UNCHANGED notMemVars
    \/ \E c \in TreeClients, id \in KnownIDs, starred \in BOOLEAN :
          SetStarred(c, id, starred) /\ TreeUUIDs(MaxListUUID) /\ UNCHANGED notMemVars
    \/ \E c \in TreeClients, id \in KnownIDs :
          DuplicateFile(c, id) /\ TreeUUIDs(MaxListUUID) /\ UNCHANGED notMemVars
    \/ \E c \in TreeClients : PutItemStep(c) /\ TreeUUIDs(MaxListUUID) /\ UNCHANGED notMemVars
    \/ \E c \in TreeClients, id \in KnownIDs :
          DeleteFile(c, id) /\ TreeUUIDs(MaxListUUID) /\ UNCHANGED notMemVars
    \/ \E c \in TreeClients : DeleteStep(c) /\ TreeUUIDs(MaxListUUID) /\ UNCHANGED notMemVars
    \/ \E c \in TreeClients, name \in TreeNames :
          EnsureRootFolder(c, name) /\ TreeUUIDs(MaxListUUID) /\ UNCHANGED notMemVars
    \/ \E c \in TreeClients :
          CreateRootFolderStep(c) /\ TreeUUIDs(MaxListUUID) /\ UNCHANGED notMemVars
    \/ \E c \in TreeClients : ListStarred(c) /\ TreeUUIDs(MaxListUUID) /\ UNCHANGED notMemVars
    \/ \E c \in TreeClients, query \in Queries :
          SearchFiles(c, query) /\ TreeUUIDs(MaxListUUID) /\ UNCHANGED notMemVars
    \/ \E c \in TreeClients :
          ListRootFolders(c) /\ TreeUUIDs(MaxListUUID) /\ UNCHANGED notMemVars
    \/ \E id \in TopFolderIDs : GetAdapter(id) /\ TreeUUIDs(MaxListUUID) /\ UNCHANGED notMemVars

----------------------------------------------------------------------------
(***************************************************************************)
(* Two MemoryAdapters of one tenant, one with client nil and one with a     *)
(* DynamoDB client, are given the same calls one after the other.  The      *)
(* variables client, files, nextUUID and alast are those of the adapter     *)
(* that runs; twin keeps those of the other one.  A call is run by one      *)
(* adapter, the two change places, and the call is run again.               *)
(***************************************************************************)

NoTwinCall ==
    [op |-> "", ID |-> "", name |-> <<>>, content |-> "", etag |-> "",
     starred |-> FALSE, parent |-> "", query |-> <<>>]

NoTwin ==
    [phase |-> "idle", call |-> NoTwinCall, client |-> "dynamodb", files |-> {},
     nextUUID |-> 1, alast |-> NoACall]

TwinInit == twin = NoTwin

TwinNames == {<<"a">>}

\* The calls a tenant may make on what is stored
TwinCalls ==
    {[NoTwinCall EXCEPT !.op = "CreateFile", !.name = name, !.content = "x", !.parent = p] :
        name \in TwinNames, p \in {"root"} \cup FolderIDs}
    \cup {[NoTwinCall EXCEPT !.op = "CreateFolder", !.name = name, !.parent = p] :
        name \in TwinNames, p \in {"root"} \cup FolderIDs}
    \cup {[NoTwinCall EXCEPT !.op = "SaveFile", !.ID = id, !.content = "y"] : id \in KnownIDs}
    \cup {[NoTwinCall EXCEPT !.op = "RenameFile", !.ID = id, !.name = <<"b">>] : id \in KnownIDs}
    \cup {[NoTwinCall EXCEPT !.op = "SetStarred", !.ID = id, !.starred = TRUE] : id \in KnownIDs}
    \cup {[NoTwinCall EXCEPT !.op = "DeleteFile", !.ID = id] : id \in KnownIDs}
    \cup {[NoTwinCall EXCEPT !.op = op] : op \in {"ListStarred", "ListRootFolders"}}

\* The adapter that runs is given the call.
TwinRun(c, call) ==
    \/ call.op = "CreateFile" /\ CreateFile(c, call.name, call.content, call.parent)
    \/ call.op = "CreateFolder" /\ CreateFolder(c, call.name, {call.parent})
    \/ call.op = "SaveFile" /\ SaveFile(c, call.ID, call.content, call.etag)
    \/ call.op = "RenameFile" /\ RenameFile(c, call.ID, call.name)
    \/ call.op = "SetStarred" /\ SetStarred(c, call.ID, call.starred)
    \/ call.op = "DeleteFile" /\ DeleteFile(c, call.ID)
    \/ call.op = "ListStarred" /\ ListStarred(c)
    \/ call.op = "ListRootFolders" /\ ListRootFolders(c)

\* A new call, given to the adapter that runs
TwinCall(c) ==
    /\ twin.phase \in {"idle", "both"}
    /\ ~ AInFlight(c)
    /\ \E call \in TwinCalls :
          /\ TwinRun(c, call)
          /\ twin' = [twin EXCEPT !.phase = "one", !.call = call]

\* The call has returned: the two adapters change places.
TwinSwap(c) ==
    /\ twin.phase = "one"
    /\ ~ AInFlight(c)
    /\ client' = twin.client
    /\ files' = twin.files
    /\ nextUUID' = twin.nextUUID
    /\ alast' = twin.alast
    /\ twin' = [twin EXCEPT !.phase = "swapped", !.client = client, !.files = files,
                            !.nextUUID = nextUUID, !.alast = alast]
    /\ UNCHANGED <<BaseFolderID, acalls>>

\* The same call, given to the other adapter
TwinReplay(c) ==
    /\ twin.phase = "swapped"
    /\ ~ AInFlight(c)
    /\ TwinRun(c, twin.call)
    /\ twin' = [twin EXCEPT !.phase = "both"]

\* A step inside a call that the adapter with a client makes in several requests
TwinStep(c) ==
    /\ PutItemStep(c) \/ DeleteStep(c)
    /\ UNCHANGED twin

\* The tenant's base folder changes between two calls.
TwinGetAdapter(c, baseFolderID) ==
    /\ twin.phase \in {"idle", "both"}
    /\ ~ AInFlight(c)
    /\ GetAdapter(baseFolderID)
    /\ UNCHANGED twin

TwinNext ==
    \/ \E c \in TreeClients : TwinCall(c) /\ TreeUUIDs(MaxTwinUUID) /\ UNCHANGED notTwinVars
    \/ \E c \in TreeClients : TwinSwap(c) /\ UNCHANGED notTwinVars
    \/ \E c \in TreeClients : TwinReplay(c) /\ TreeUUIDs(MaxTwinUUID) /\ UNCHANGED notTwinVars
    \/ \E c \in TreeClients : TwinStep(c) /\ TreeUUIDs(MaxTwinUUID) /\ UNCHANGED notTwinVars
    \/ \E c \in TreeClients, id \in TopFolderIDs :
          TwinGetAdapter(c, id) /\ UNCHANGED notTwinVars

----------------------------------------------------------------------------
(***************************************************************************)
(* Storage providers.  HybridProvider (app/app.go) sends the users whose    *)
(* ID starts with "demo-user-" to memory.Provider, which keeps one          *)
(* MemoryAdapter per user, and every other user to googledrive.Provider,    *)
(* which builds a DriveAdapter per call.  The MemoryAdapter of the demo     *)
(* user is the one of the variables client, files and BaseFolderID.         *)
(***************************************************************************)

demoPrefix == "demo-user-"

\* User IDs, as a prefix and a rest
Tenants == {<<demoPrefix, "1">>, <<"g", "1">>}

\* strings.HasPrefix(userID, "demo-user-") (app.go:36)
HasDemoPrefix(userID) == Len(userID) > 0 /\ userID[1] = demoPrefix

\* model.UserToken, and no item
UserToken(baseFolderID) == [found |-> TRUE, BaseFolderID |-> baseFolderID]

NoUserToken == [found |-> FALSE, BaseFolderID |-> ""]

NoGetAdapter ==
    [userID |-> <<>>, ok |-> FALSE, adapter |-> 0, kept |-> 0, BaseFolderID |-> "",
     before |-> {}]

ProviderInit ==
    /\ tokens = [u \in Tenants |-> NoUserToken]
    /\ stores = [u \in Tenants |-> 0]
    /\ made = 0
    /\ glast = NoGetAdapter
    /\ resolved = [u \in Tenants |-> {}]

\* AuthService.SaveToken (part_004:59-105): the base folder of an existing
\* token is kept
SaveToken(userID) ==
    /\ tokens' = [tokens EXCEPT ![userID] = UserToken(tokens[userID].BaseFolderID)]
    /\ UNCHANGED <<stores, made, glast, resolved, memVars>>

\* AuthService.UpdateBaseFolderID (part_004:141-170), with the UserTokens table:
\* UpdateItem sets the attribute, on a new item if there is none
UpdateBaseFolderID(userID, folderID) ==
    /\ tokens[userID].BaseFolderID # folderID
    /\ tokens' = [tokens EXCEPT ![userID] = UserToken(folderID)]
    /\ UNCHANGED <<stores, made, glast, resolved, memVars>>

\* GetAdapter has returned adapter id, or an error, to the caller.
GetAdapterReturns(userID, ok, id, baseFolderID) ==
    /\ glast' = [userID |-> userID, ok |-> ok, adapter |-> id, kept |-> stores[userID],
                 BaseFolderID |-> baseFolderID, before |-> files]
    /\ resolved' = [resolved EXCEPT ![userID] = IF ok THEN @ \cup {id} ELSE @]

\* Mutant: the provider looks nothing up and builds an adapter on every call.
StoreMissingAlways(userID) == TRUE

\* _, ok := p.stores[userID]; !ok (memory.go:1018)
StoreMissing(userID) == stores[userID] = 0

\* memory.Provider.GetAdapter (memory.go:1015-1037), all of it under p.mu:
\* an adapter is built if none is kept, NewMemoryAdapter starting from an
\* empty map; the base folder of the token, if one is found, is set on it.
MemoryProviderGetAdapter(userID) ==
    LET token == tokens[userID]
        missing == StoreMissing(userID)
        id == IF missing THEN made + 1 ELSE stores[userID]
        built == IF token.found THEN token.BaseFolderID ELSE ""
        baseFolderID == IF token.found THEN token.BaseFolderID
                        ELSE IF missing THEN built ELSE BaseFolderID
    IN /\ missing => made < MaxAdapters
       /\ stores' = [stores EXCEPT ![userID] = id]
       /\ made' = IF missing THEN made + 1 ELSE made
       /\ files' = IF missing /\ client = "nil" THEN {} ELSE files
       /\ BaseFolderID' = baseFolderID
       /\ GetAdapterReturns(userID, TRUE, id, baseFolderID)
       /\ UNCHANGED <<tokens, client, nextUUID, acalls, alast>>

\* googledrive.Provider.GetAdapter (googledrive/provider.go:22-40): GetClient
\* fails without a token; otherwise NewDriveAdapter builds an adapter.
DriveProviderGetAdapter(userID) ==
    LET token == tokens[userID]
    IN IF ~ token.found
       THEN /\ GetAdapterReturns(userID, FALSE, 0, "")
            /\ UNCHANGED <<tokens, stores, made, memVars>>
       ELSE /\ made < MaxAdapters
            /\ made' = made + 1
            /\ GetAdapterReturns(userID, TRUE, made + 1, token.BaseFolderID)
            /\ UNCHANGED <<tokens, stores, memVars>>

\* HybridProvider.GetAdapter (app.go:35-40)
HybridGetAdapter(userID) ==
    IF HasDemoPrefix(userID)
    THEN MemoryProviderGetAdapter(userID)
    ELSE DriveProviderGetAdapter(userID)

\* The demo user, whose adapter the variables of the ephemeral adapter are
DemoUser == CHOOSE u \in Tenants : HasDemoPrefix(u)

\* NoteHandler.CreateFolder (note.go:33): the adapter is resolved, then called
DemoCreateFolder(c, name) ==
    /\ stores[DemoUser] # 0
    /\ CreateFolder(c, name, {"root"})
    /\ UNCHANGED providerVars

\* The folders a user may choose as base folder
BaseFolderChoices == TopFolderIDs \cup {"folder"}

\* The adapter of the demo user creates no more items than this.
ProviderUUIDs == TreeUUIDs(MaxAdapters + 1)

ProviderNext ==
    \/ \E u \in Tenants : SaveToken(u) /\ UNCHANGED notProviderVars
    \/ \E u \in Tenants, id \in BaseFolderChoices :
          UpdateBaseFolderID(u, id) /\ UNCHANGED notProviderVars
    \/ \E u \in Tenants : HybridGetAdapter(u) /\ UNCHANGED notProviderVars
    \/ \E c \in TreeClients, name \in TreeNames :
          DemoCreateFolder(c, name) /\ ProviderUUIDs /\ UNCHANGED notProviderVars

----------------------------------------------------------------------------
(***************************************************************************)
(* The ancestor walk of ListStarred and SearchFiles (isDescendant,          *)
(* drive.go:428-464 and memory.go:1113-1133), step by step.  walk holds the *)
(* parent graph the service or the store answers from, the folders whose    *)
(* lookup fails (Files.Get returns an error; no entry in allItems), the     *)
(* parents of the candidates the listing returned, the stack of the         *)
(* recursive invocations, the ancestorCache of the call (Drive only) and,   *)
(* per folder, the number of lookups made.  The base folder is the target.  *)
(***************************************************************************)

\* The folders above the candidates, and the base folder
Nodes == {"A", "B"}

Base == "T"

ParentSets == SUBSET (Nodes \cup {Base})

WalkAdapters == {"drive", "memory"}

NoWalk ==
    [adapter |-> "", parents |-> [n \in Nodes |-> {}], missing |-> {}, cands |-> <<>>,
     k |-> 0, stack |-> <<>>, cache |-> [n \in Nodes |-> ""],
     fetched |-> [n \in Nodes |-> 0], out |-> <<>>]

WalkIdle == walk = NoWalk

\* A parent graph in which no folder is its own ancestor
Acyclic(parents) ==
    \A n \in Nodes : n \notin parents[n] /\ \A m \in parents[n] \cap Nodes : n \notin parents[m]

\* A listing of two candidates over the parent graph parents
WalkOf(adapter, parents, missing, cands) ==
    [NoWalk EXCEPT !.adapter = adapter, !.parents = parents, !.missing = missing,
                   !.cands = cands]

\* Every call, on every parent graph
Walks ==
    {WalkOf(a, ps, ms, <<c1, c2>>) :
        a \in WalkAdapters, ps \in [Nodes -> ParentSets], ms \in SUBSET Nodes,
        c1 \in ParentSets, c2 \in ParentSets}

\* Mutant: only a positive outcome is remembered.
ancestorCachePositiveOnly(cache, p) == IF cache[p] = "true" THEN "true" ELSE ""

\* cache[p] (drive.go:442): "" when p has no entry
ancestorCache(cache, p) == cache[p]

\* Mutant: a failed lookup is taken for an answer.
FilesGetIgnoresError(w, p) == {w.parents[p]}

\* d.service.Files.Get(p) (drive.go:451) / allItems[p] (memory.go:1126): the
\* parents of p, or nothing when the lookup fails
FilesGet(w, p) == IF p \in w.missing THEN {} ELSE {w.parents[p]}

\* The folders whose invocations are on the stack
OnStack(stack) == {stack[i].node : i \in 1 .. Len(stack)} \ {""}

\* The loop over the listing takes the next candidate and calls isDescendant
\* on its parents (drive.go:492, :541; memory.go:1160, :1212).
WalkBegin ==
    /\ walk.adapter # "" /\ walk.stack = <<>> /\ walk.k < Len(walk.cands)
    /\ walk' = [walk EXCEPT !.k = walk.k + 1,
                            !.stack = <<[node |-> "", todo |-> walk.cands[walk.k + 1]]>>]

\* The innermost invocation returns true: so does every invocation below it,
\* each storing cache[p] = true on its way (drive.go:457-460).
ReturnTrue(w) ==
    [w EXCEPT !.stack = <<>>,
              !.out = Append(w.out, TRUE),
              !.cache = [n \in Nodes |->
                           IF w.adapter = "drive" /\ n \in OnStack(w.stack)
                           THEN "true" ELSE w.cache[n]]]

\* The innermost invocation has no parent left and returns false; the caller
\* stores cache[p] = false (drive.go:461) and goes on with its own loop.
ReturnFalse(w) ==
    LET n == Len(w.stack)
        top == w.stack[n]
    IN IF n = 1
       THEN [w EXCEPT !.stack = <<>>, !.out = Append(w.out, FALSE)]
       ELSE [w EXCEPT !.stack = SubSeq(w.stack, 1, n - 1),
                      !.cache = IF w.adapter = "drive"
                                THEN [w.cache EXCEPT ![top.node] = "false"] ELSE w.cache]

\* One turn of the loop over fileParents in the innermost invocation, for
\* the parent p (drive.go:434-462, memory.go:1118-1131). The recursion goes no
\* deeper than MaxDepth invocations.
WalkParent(w, p) ==
    LET n == Len(w.stack)
        rest == [w.stack EXCEPT ![n].todo = w.stack[n].todo \ {p}]
        looked == [w EXCEPT !.fetched[p] = w.fetched[p] + 1]
    IN IF p = Base
       THEN walk' = ReturnTrue(w)
       ELSE IF w.adapter = "drive" /\ ancestorCache(w.cache, p) = "true"
       THEN walk' = ReturnTrue(w)
       ELSE IF w.adapter = "drive" /\ ancestorCache(w.cache, p) = "false"
       THEN walk' = [w EXCEPT !.stack = rest]
       ELSE IF FilesGet(w, p) = {}
       THEN walk' = [looked EXCEPT !.stack = rest,
                                   !.cache = IF w.adapter = "drive"
                                             THEN [w.cache EXCEPT ![p] = "false"]
                                             ELSE w.cache]
       ELSE /\ n < MaxDepth
            /\ \E nextParents \in FilesGet(w, p) :
                 walk' = [looked EXCEPT !.stack =
                             Append(rest, [node |-> p, todo |-> nextParents])]

WalkStep ==
    /\ walk.stack # <<>>
    /\ LET top == walk.stack[Len(walk.stack)]
       IN IF top.todo = {} THEN walk' = ReturnFalse(walk)
          ELSE \E p \in top.todo : WalkParent(walk, p)

notWalkVars == <<lockVars, memVars, driveVars, twin, providerVars, renewed, sync, superseded>>

WalkNext ==
    \/ WalkBegin /\ UNCHANGED notWalkVars
    \/ WalkStep /\ UNCHANGED notWalkVars

\* No ETag has been replaced yet.
SupersededInit == superseded = {}

\* The <<ID, ETag>> pairs of the Drive files whose ETag this step replaces
Replaced ==
    {<<f.ID, Md5Checksum(f.MIMEType, f.Content)>> :
        f \in {g \in drive : \E h \in drive' :
                   /\ h.ID = g.ID
                   /\ Md5Checksum(h.MIMEType, h.Content) # Md5Checksum(g.MIMEType, g.Content)}}

notETagVars == <<lockVars, memVars, twin, providerVars, renewed, sync, walk>>

\* The Drive adapter's mutations, with the replaced ETags remembered
Supersede == superseded' = superseded \cup Replaced /\ UNCHANGED notETagVars

ETagNext ==
    \/ \E name \in DriveNames, content \in DriveContents :
          DriveCreateFile(name, content) /\ Supersede
    \/ \E id \in DriveIDs, content \in DriveContents, etag \in DriveETags :
          DriveSaveFile(id, content, etag) /\ Supersede
    \/ \E id \in DriveIDs, newName \in DriveNames :
          DriveRenameFile(id, newName) /\ Supersede
    \/ \E id \in DriveIDs, starred \in BOOLEAN :
          DriveSetStarred(id, starred) /\ Supersede

----------------------------------------------------------------------------
(***************************************************************************)
(* A holder that renews.  renewed is history: per user, the clock value at  *)
(* which the user's latest AcquireLock or Heartbeat returned successfully,   *)
(* and -1 when there was none or the user released the lock afterwards.      *)
(* There is one file, so a user holds at most one lock.                      *)
(***************************************************************************)

RenewInit == renewed = [u \in Users |-> -1]

\* The calls of the editor page: lock on open, heartbeat every interval
\* (useHeartbeat.ts:26), release on close
RenewOps == {"AcquireLock", "Heartbeat", "ReleaseLock"}

\* The call of client c that returns in this step renewed the caller's lock
Renewing(c) ==
    renewed' = IF last'.ok THEN [renewed EXCEPT ![calls[c].UserID] = clock] ELSE renewed

\* The call of client c that returns in this step gave the caller's lock up
Releasing(c) ==
    renewed' = IF last'.ok THEN [renewed EXCEPT ![calls[c].UserID] = -1] ELSE renewed

\* Less than TTL has passed since the latest successful renewal of user u
OnSchedule(u) == renewed[u] >= 0 /\ clock - renewed[u] < TTL

notRenewVars == <<memVars, driveVars, twin, providerVars, sync, walk, superseded>>

RenewNext ==
    \/ \E c \in Clients, u \in Users, op \in RenewOps, f \in Files :
          Invoke(c, u, op, f) /\ UNCHANGED notLockVars
    \/ \E c \in Clients : AcquireLock(c) /\ Renewing(c) /\ UNCHANGED notRenewVars
    \/ \E c \in Clients : Heartbeat(c) /\ Renewing(c) /\ UNCHANGED notRenewVars
    \/ \E c \in Clients : ReleaseLock(c) /\ Releasing(c) /\ UNCHANGED notRenewVars
    \/ Tick /\ UNCHANGED notLockVars
    \/ Evict /\ UNCHANGED notLockVars

----------------------------------------------------------------------------
(***************************************************************************)
(* Conflict check (sync.CheckConflict) and the /sync/check endpoint         *)
(* (SyncHandler.CheckConflict).  sync holds the two ETags of the request at  *)
(* hand, what the function returned on them (got) and the response of the   *)
(* endpoint (status, HasConflict); got and HasConflict hold one boolean     *)
(* once there is one.                                                       *)
(***************************************************************************)

\* Version tokens: none, and the ETags of the repository's tests
ETags == {"", "abc", "abc123", "def456", "xyz"}

NoSync == [LocalETag |-> "", RemoteETag |-> "", got |-> {}, status |-> 0, HasConflict |-> {}]

SyncInit == sync = NoSync

\* A request with any two tokens
SyncRequests ==
    {[NoSync EXCEPT !.LocalETag = l, !.RemoteETag = r] : l \in ETags, r \in ETags}

notSyncVars == <<lockVars, memVars, driveVars, twin, providerVars, renewed, walk, superseded>>

\* Mutant: an empty token matches any token.
CheckConflictEmptyMatches(localEtag, remoteEtag) ==
    localEtag # "" /\ remoteEtag # "" /\ localEtag # remoteEtag

\* sync.CheckConflict
CheckConflict(localEtag, remoteEtag) == localEtag # remoteEtag

\* A caller applies the function to the two tokens
CallCheckConflict ==
    /\ sync' = [sync EXCEPT !.got = {CheckConflict(sync.LocalETag, sync.RemoteETag)}]
    /\ UNCHANGED notSyncVars

\* SyncHandler.CheckConflict: 401 without a valid token, 400 on a body that is
\* not JSON, else 200 with has_conflict computed from the two fields
SyncHandlerCheckConflict(authorized, validBody) ==
    /\ sync' = IF ~ authorized
               THEN [sync EXCEPT !.status = 401, !.HasConflict = {}]
               ELSE IF ~ validBody
               THEN [sync EXCEPT !.status = 400, !.HasConflict = {}]
               ELSE [sync EXCEPT !.status = 200,
                                 !.HasConflict = {sync.LocalETag # sync.RemoteETag}]
    /\ UNCHANGED notSyncVars

SyncNext ==
    \/ CallCheckConflict
    \/ \E authorized \in BOOLEAN, validBody \in BOOLEAN :
          SyncHandlerCheckConflict(authorized, validBody)

----------------------------------------------------------------------------
(***************************************************************************)
(* Note endpoints and session endpoints together.  Two users reach the      *)
(* same items: the adapters of both have the DynamoDB client, and GetItem   *)
(* and PutItem address an item by its ID alone (memory.go:185-190).  The    *)
(* file ID of a lock is the ID of the note.                                 *)
(***************************************************************************)

\* GetUserID: the user of the token each client sends
ClientUser == [c \in Clients |-> IF c = "c1" THEN "alice" ELSE "bob"]

\* What each user types
ContentOf(u) == IF u = "alice" THEN "x" ELSE "y"

\* NoteHandler.CreateNote (note.go:142-198): storage.CreateFile
CreateNote(c, name) == CreateFile(c, name, ContentOf(ClientUser[c]), "root")

\* NoteHandler.UpdateNote (note.go:200-243): storage.SaveFile with the If-Match
\* header as etag; the lock manager is not asked
UpdateNote(c, id, etag) == SaveFile(c, id, ContentOf(ClientUser[c]), etag)

NoteIDs == {f.ID : f \in files}

\* If-Match: the ETag of a stored note, or no header
NoteETags == {f.ETag : f \in files} \cup {""}

NoteSpecInit ==
    /\ LockInit /\ MemInit /\ client = "dynamodb"
    /\ DriveInit /\ TwinInit /\ ProviderInit /\ RenewInit /\ WalkIdle /\ SupersededInit /\ SyncInit

\* One note is created and saved once more.
NoteUUIDs == UUIDsWithin(MaxUUID - 1)

NoteNext ==
    \/ \E c \in Clients, name \in TreeNames :
          CreateNote(c, name) /\ NoteUUIDs /\ UNCHANGED notMemVars
    \/ \E c \in Clients, id \in NoteIDs, etag \in NoteETags :
          UpdateNote(c, id, etag) /\ NoteUUIDs /\ UNCHANGED notMemVars
    \/ \E c \in Clients : PutItemStep(c) /\ NoteUUIDs /\ UNCHANGED notMemVars
    \/ \E c \in Clients, f \in NoteIDs :
          Invoke(c, ClientUser[c], "AcquireLock", f) /\ UNCHANGED notLockVars
    \/ \E c \in Clients : AcquireLock(c) /\ UNCHANGED notLockVars
    \/ Tick /\ UNCHANGED notLockVars

\* A tenant that has created all the notes it may but one: CreateFile("a", "x",
\* "root") has returned maxDemoItemCount - 1 times.
Prefilled ==
    {File(UUID(2 * k - 1), toMemoryName(<<"a">>), MarkdownMIME, "x", UUID(2 * k),
          {"root"}, FALSE) : k \in 1 .. (maxDemoItemCount - 1)}

LimitInit ==
    /\ client \in AdapterModes
    /\ files = Prefilled
    /\ BaseFolderID = ""
    /\ nextUUID = 2 * Cardinality(Prefilled) + 1
    /\ acalls = [c \in Clients |-> IdleACall]
    /\ alast = NoACall

LimitNames == {<<"a">>, <<"b">>}

\* An item of the prefilled store and an ID that was never handed out
LimitIDs == {UUID(1), UUID(0)}

LimitUUIDs == nextUUID' <= 2 * Cardinality(Prefilled) + MaxLimitUUID + 1

\* The operations that add an item, at the item limit.
LimitNext ==
    \/ \E c \in Clients, name \in LimitNames :
          CreateFile(c, name, "x", "root") /\ LimitUUIDs /\ UNCHANGED notMemVars
    \/ \E c \in Clients, name \in LimitNames :
          CreateFolder(c, name, {"root"}) /\ LimitUUIDs /\ UNCHANGED notMemVars
    \/ \E c \in Clients, id \in LimitIDs :
          DuplicateFile(c, id) /\ LimitUUIDs /\ UNCHANGED notMemVars
    \/ \E c \in Clients : PutItemStep(c) /\ LimitUUIDs /\ UNCHANGED notMemVars
    \/ \E c \in Clients, name \in LimitNames :
          EnsureRootFolder(c, name) /\ LimitUUIDs /\ UNCHANGED notMemVars
    \/ \E c \in Clients : CreateRootFolderStep(c) /\ LimitUUIDs /\ UNCHANGED notMemVars

\* MemoryAdapter.GetFile as a call of its own (memory.go:180-216, :633-648)
GetFileCall(c, id) ==
    /\ ~ AInFlight(c)
    /\ LET got == GetFile(id)
       IN AComplete(c, "GetFile", id, "", "", got, files, {FileMetadata(f) : f \in got},
                    IF got = {} THEN ErrNotFound ELSE NoError, 0, <<>>)

\* MemoryAdapter.ListFiles (memory.go:109-177), listFilesMap (memory.go:606-631)
ListFiles(c, folderID) ==
    /\ ~ AInFlight(c)
    /\ LET targetFolderID == IF folderID # "" THEN folderID
                             ELSE IF BaseFolderID # "" THEN BaseFolderID ELSE "root"
       IN AComplete(c, "ListFiles", targetFolderID, "", "", {}, files,
                    IF client = "nil" THEN listFilesMap(files, targetFolderID)
                    ELSE listFilesDynamo(files, targetFolderID),
                    NoError, 0, <<>>)

\* The client that builds the tree and deletes, and the one that reads and
\* creates meanwhile.
Deleter == "c1"

Bystander == "c2"

\* Three items at most are created.
RaceUUIDs == TreeUUIDs(MaxTreeUUID - 2)

\* The IDs a reader may ask for: those stored now or when the delete began
RaceIDs == {f.ID : f \in files \cup acalls[Deleter].before}

RaceNext ==
    \/ \E name \in TreeNames, p \in {"root"} \cup FolderIDs :
          CreateFolder(Deleter, name, {p}) /\ RaceUUIDs /\ UNCHANGED notMemVars
    \/ \E c \in {Deleter, Bystander}, name \in TreeNames, content \in TreeContents,
          p \in {"root"} \cup FolderIDs :
          CreateFile(c, name, content, p) /\ RaceUUIDs /\ UNCHANGED notMemVars
    \/ \E id \in FolderIDs : DeleteFile(Deleter, id) /\ RaceUUIDs /\ UNCHANGED notMemVars
    \/ DeleteStep(Deleter) /\ RaceUUIDs /\ UNCHANGED notMemVars
    \/ \E id \in RaceIDs : GetFileCall(Bystander, id) /\ RaceUUIDs /\ UNCHANGED notMemVars
    \/ \E id \in {""} \cup FolderIDs :
          ListFiles(Bystander, id) /\ RaceUUIDs /\ UNCHANGED notMemVars

\* One client creates items and deletes them, nothing else.
DeleteNext ==
    \/ \E c \in TreeClients, name \in TreeNames, p \in {"root"} \cup FolderIDs :
          CreateFolder(c, name, {p}) /\ TreeUUIDs(MaxTreeUUID) /\ UNCHANGED notMemVars
    \/ \E c \in TreeClients, name \in TreeNames, content \in TreeContents,
          p \in {"root"} \cup FolderIDs :
          CreateFile(c, name, content, p) /\ TreeUUIDs(MaxTreeUUID) /\ UNCHANGED notMemVars
    \/ \E c \in TreeClients, id \in KnownIDs :
          DeleteFile(c, id) /\ TreeUUIDs(MaxTreeUUID) /\ UNCHANGED notMemVars
    \/ \E c \in TreeClients : DeleteStep(c) /\ TreeUUIDs(MaxTreeUUID) /\ UNCHANGED notMemVars

\* The lock manager alone: the adapter is not used.
Init == LockInit /\ MemInit /\ client = "nil" /\ DriveInit /\ TwinInit /\ ProviderInit /\ RenewInit /\ WalkIdle /\ SupersededInit /\ SyncInit

Next == LockNext /\ UNCHANGED notLockVars

Spec == Init /\ [][Next]_vars

\* The ephemeral adapter alone: the lock manager is not used.
MemSpecInit ==
    MemInit /\ LockInit /\ locker = "MockLocker" /\ DriveInit /\ TwinInit /\ ProviderInit /\ RenewInit /\ WalkIdle /\ SupersededInit /\ SyncInit

MemSpec == MemSpecInit /\ [][MemNext]_vars

\* The ephemeral adapter with one client and a deeper tree.
TreeSpec == MemSpecInit /\ [][TreeNext]_vars

\* The Google Drive adapter alone.
DriveSpecInit == MemSpecInit /\ client = "nil"

DriveSpec == DriveSpecInit /\ [][DriveNext]_vars

\* The Google Drive adapter, with the history of the replaced ETags.
ETagSpec == DriveSpecInit /\ [][ETagNext]_vars

\* The ephemeral adapter of a tenant close to the item limit.
LimitSpecInit ==
    LimitInit /\ LockInit /\ locker = "MockLocker" /\ DriveInit /\ TwinInit /\ ProviderInit /\ RenewInit /\ WalkIdle /\ SupersededInit /\ SyncInit

\* The note and session endpoints, with two users.
NoteSpec == NoteSpecInit /\ [][NoteNext]_vars

\* The lock manager with the editor page's calls and the renewal history.
RenewSpec == Init /\ [][RenewNext]_vars

\* The conflict check on a request with any two tokens.
SyncSpecInit ==
    /\ MemInit /\ client = "nil" /\ LockInit /\ locker = "MockLocker"
    /\ DriveInit /\ TwinInit /\ ProviderInit /\ RenewInit /\ WalkIdle /\ SupersededInit /\ sync \in SyncRequests

SyncSpec == SyncSpecInit /\ [][SyncNext]_vars

\* A folder delete with a second client reading and creating meanwhile.
RaceSpec == MemSpecInit /\ [][RaceNext]_vars

\* One listing of the Drive adapter over a parent graph without cycles, as
\* Drive keeps it.
WalkSpecInit ==
    /\ MemInit /\ client = "nil" /\ LockInit /\ locker = "MockLocker"
    /\ DriveInit /\ TwinInit /\ ProviderInit /\ RenewInit /\ SupersededInit /\ SyncInit
    /\ walk \in {w \in Walks : w.adapter = "drive" /\ Acyclic(w.parents)}

WalkSpec == WalkSpecInit /\ [][WalkNext]_vars

\* One listing of either adapter over any parent graph.
CycleSpecInit ==
    /\ MemInit /\ client = "nil" /\ LockInit /\ locker = "MockLocker"
    /\ DriveInit /\ TwinInit /\ ProviderInit /\ RenewInit /\ SupersededInit /\ SyncInit
    /\ walk \in Walks

CycleSpec == CycleSpecInit /\ [][WalkNext]_vars

\* The providers, with a demo user and a Google user.
ProviderSpec == MemSpecInit /\ [][ProviderNext]_vars

\* Two ephemeral adapters, one of each mode, given the same calls.
TwinSpec == DriveSpecInit /\ [][TwinNext]_vars

LimitSpec == LimitSpecInit /\ [][LimitNext]_vars

\* The ephemeral adapter with one client that creates and deletes.
DeleteSpec == MemSpecInit /\ [][DeleteNext]_vars

----------------------------------------------------------------------------
(* Properties of the lock manager *)

\* The record of another user than u in item, if any
OthersRecord(item, u) == {s \in item : s.UserID # u}

\* The session AcquireLock and Heartbeat write and return
Grant(call) == EditingSession(call.FileID, call.UserID, call.now + TTL)

C2_Exclusive ==
    /\ \A f \in Files : Cardinality(Lookup(sessions, f)) <= 1
    /\ (last.op = "AcquireLock" /\ last.ok) =>
          \A s \in OthersRecord(last.pre, last.UserID) : LockStatus({s}, last.now) = {}

\* C3: of two AcquireLock calls of different users in flight together on an
\* unlocked file, the one that comes second fails (rival), and the one that
\* finds the file unlocked succeeds and the stored record names it.
C3_OneWinner ==
    last.op = "AcquireLock" =>
        /\ last.rival => ~ last.ok /\ last.post = last.pre
        /\ (\A s \in last.pre : s.ExpiresAt < last.now) =>
              last.ok /\ last.post = {Grant(last)}

\* C3 witness: the losing call of such a race, with the winner's record stored
C3_Witness ==
    /\ last.op = "AcquireLock" /\ last.rival /\ ~ last.ok
    /\ OthersRecord(last.post, last.UserID) # {}

\* C6 (as claimed): a refused AcquireLock returns the LockConflict error, not
\* the error of a store failure, and the error carries the holder's record.
C6_LockConflict ==
    (last.op = "AcquireLock" /\ ~ last.ok) =>
        /\ last.err = ErrLocked
        /\ last.status = 409
        /\ last.errSession = last.pre

\* C7 (as claimed): Heartbeat(f,u) fails and changes nothing when no record
\* exists or the owner is not u; otherwise it succeeds, keeps owner u and
\* returns an expiry strictly greater than the stored one.
C7_StrictlyGreater ==
    last.op = "Heartbeat" =>
        IF \E s \in last.pre : s.UserID = last.UserID
        THEN /\ last.ok
             /\ \A s \in last.post : s.UserID = last.UserID
             /\ \A s \in last.pre, r \in last.ret : r.ExpiresAt > s.ExpiresAt
        ELSE ~ last.ok /\ last.post = last.pre

\* C7 (amended): Heartbeat(f,u) fails and changes nothing when no record
\* exists or the owner is not u; otherwise it succeeds, keeps owner u, and
\* stores and returns the expiry now+TTL of the clock value it read, which is
\* greater than the stored expiry exactly when that clock value is later than
\* the one the stored expiry was computed from.
C7_Amended ==
    last.op = "Heartbeat" =>
        IF \E s \in last.pre : s.UserID = last.UserID
        THEN /\ last.ok
             /\ last.post = {Grant(last)} /\ last.ret = {Grant(last)}
             /\ \A s \in last.pre, r \in last.ret :
                   r.ExpiresAt > s.ExpiresAt <=> last.now > s.ExpiresAt - TTL
        ELSE ~ last.ok /\ last.post = last.pre /\ last.ret = {}

\* C7 witness: a Heartbeat of the owner that extended the stored expiry
C7_Witness ==
    /\ last.op = "Heartbeat" /\ last.ok
    /\ \E s \in last.pre, r \in last.post :
          s.UserID = last.UserID /\ r.UserID = last.UserID /\ r.ExpiresAt > s.ExpiresAt

\* C8 (as claimed): a Heartbeat of u on a record of u whose expiry has passed
\* fails and the file stays unlocked.
C8_NoReacquire ==
    (last.op = "Heartbeat" /\ \E s \in last.pre :
                                 s.UserID = last.UserID /\ s.ExpiresAt < last.now) =>
        ~ last.ok /\ LockStatus(last.post, last.now) = {}

\* C9: ReleaseLock(f,u) fails when no record exists for f or the record's
\* owner is not u, and the stored record is then unchanged.
C9_ReleaseRefused ==
    (last.op = "ReleaseLock" /\ ~ \E s \in last.pre : s.UserID = last.UserID) =>
        ~ last.ok /\ last.post = last.pre

\* C9 witness: a ReleaseLock refused because another user owns the record
C9_Witness ==
    /\ last.op = "ReleaseLock" /\ ~ last.ok
    /\ OthersRecord(last.pre, last.UserID) # {}
    /\ last.post = last.pre

\* C10: after a successful ReleaseLock the record is gone and GetLockStatus
\* finds no lock; an AcquireLock that finds no record succeeds, whoever calls
\* and however far away the released expiry was.
C10_ReleaseFrees ==
    /\ (last.op = "ReleaseLock" /\ last.ok) =>
          last.post = {} /\ LockStatus(last.post, last.now) = {}
    /\ (last.op = "GetLockStatus" /\ last.pre = {}) => last.ret = {}
    /\ (last.op = "AcquireLock" /\ last.pre = {}) => last.ok
    /\ (last.op = "AcquireLock" /\ last.handover) =>
          last.pre = {} /\ last.ok

\* C10 witness: bob acquires right after alice released a lock that had not expired
C10_Witness ==
    /\ last.op = "AcquireLock" /\ last.ok /\ last.handover
    /\ last.pre = {} /\ last.post = {Grant(last)}

\* C11: GetLockStatus changes nothing in the store; it returns no lock exactly
\* when it found no record or a record whose expiry has passed (stored or
\* not), and otherwise the stored owner and expiry.
C11_StatusReadOnly ==
    /\ [] (last.op = "GetLockStatus" =>
             /\ last.ok
             /\ last.ret = {} <=> (last.pre = {} \/ \E s \in last.pre : s.ExpiresAt < last.now)
             /\ last.ret # {} => last.ret = last.pre)
    /\ [][\A c \in Clients : GetLockStatus(c) => sessions' = sessions]_vars

\* C11 witness: a record whose expiry has passed is still stored, and
\* GetLockStatus reported no lock
C11_Witness ==
    /\ last.op = "GetLockStatus" /\ last.ret = {}
    /\ last.pre # {} /\ Lookup(sessions, last.FileID) = last.pre

\* C12: an AcquireLock by the user whose AcquireLock was the call answered
\* just before, entered after that answer, succeeds and returns an expiry no
\* smaller than the one returned before.
C12_SameOwnerMonotone ==
    [][\A c \in Clients :
         ( /\ AcquireLock(c)
           /\ last.op = "AcquireLock" /\ last.ok
           /\ last.UserID = calls[c].UserID /\ last.FileID = calls[c].FileID
           /\ calls[c].started >= last.done )
         => /\ last'.ok
            /\ \A s \in last.ret, t \in last'.ret : t.ExpiresAt >= s.ExpiresAt]_vars

\* C12 witness: the owner acquired again while the lock was still held and got
\* a later expiry
C12_Witness ==
    /\ last.op = "AcquireLock" /\ last.ok
    /\ \E s \in last.pre, t \in last.ret :
          s.UserID = last.UserID /\ s.ExpiresAt >= last.now /\ t.ExpiresAt > s.ExpiresAt

----------------------------------------------------------------------------
(* Properties of the ephemeral adapter *)

\* C4 (as claimed): SaveFile on an existing item succeeds iff etag is empty or
\* equals the stored ETag; with a stale etag it fails with PreconditionFailed
\* and leaves the stored item unchanged.
C4_SaveIff ==
    (alast.op = "SaveFile" /\ alast.pre # {}) =>
        /\ alast.ok <=> \A f \in alast.pre : alast.etag = "" \/ alast.etag = f.ETag
        /\ (\E f \in alast.pre : alast.etag # "" /\ alast.etag # f.ETag) =>
              alast.err = ErrPreconditionFailed /\ alast.post = alast.old

\* C4 (amended): SaveFile on an existing item with content within the size
\* quota succeeds iff etag is empty or equals the stored ETag; with a stale
\* etag it fails with PreconditionFailed; content over the quota is refused
\* whatever the etag; every failure leaves the stored item unchanged.
C4_Amended ==
    (alast.op = "SaveFile" /\ alast.pre # {}) =>
        /\ alast.ok <=> /\ ContentLen(alast.content) <= maxDemoContentSize
                        /\ \A f \in alast.pre : alast.etag = "" \/ alast.etag = f.ETag
        /\ ( /\ ContentLen(alast.content) <= maxDemoContentSize
             /\ \E f \in alast.pre : alast.etag # "" /\ alast.etag # f.ETag ) =>
              alast.err = ErrPreconditionFailed
        /\ ContentLen(alast.content) > maxDemoContentSize => alast.err = ErrContentTooLarge
        /\ ~ alast.ok => alast.post = alast.old /\ alast.old = alast.pre /\ alast.ret = {}

\* C4 witness: after "y" was saved, a SaveFile with the superseded ETag is
\* refused and the item still holds "y"
C4_Witness ==
    /\ alast.op = "SaveFile" /\ alast.err = ErrPreconditionFailed
    /\ \E f \in alast.post : f.Content = "y" /\ f.ETag # alast.etag
    /\ alast.content # "y"

\* C5: every successful SaveFile, RenameFile and SetStarred stores and returns
\* an ETag different from the one the item had before the call.
C5_ETagChanges ==
    (alast.op \in {"SaveFile", "RenameFile", "SetStarred"} /\ alast.ok) =>
        /\ alast.post # {} /\ alast.ret # {}
        /\ \A g \in alast.post :
              /\ \A f \in alast.pre \cup alast.old : g.ETag # f.ETag
              /\ \A r \in alast.ret : r.ETag = g.ETag

\* C5 witness: a SetStarred that sets the value the item already had
C5_Witness ==
    /\ alast.op = "SetStarred" /\ alast.ok
    /\ \E f \in alast.old, g \in alast.post : f.Starred = g.Starred /\ f.ETag # g.ETag

\* The IDs of the items a parent chain starting at parents passes through
RECURSIVE AncestorIDs(_, _)
AncestorIDs(store, parents) ==
    parents \cup UNION {AncestorIDs(store, g.Parents) : g \in {h \in store : h.ID \in parents}}

\* The item id and everything below it
Subtree(store, id) == {f \in store : f.ID = id \/ id \in AncestorIDs(store, f.Parents)}

\* C13: once DeleteFile on a folder has returned successfully, with nothing
\* else running, the folder and every item below it are gone, GetFile on each
\* of them finds nothing, and every other item is still stored.
C13_DeleteSubtree ==
    ( /\ alast.op = "DeleteFile" /\ alast.ok
      /\ \E f \in alast.pre : f.MIMEType = FolderMIME
      /\ \A c \in Clients : ~ AInFlight(c) ) =>
        /\ files = alast.before \ Subtree(alast.before, alast.ID)
        /\ \A f \in Subtree(alast.before, alast.ID) : GetFile(f.ID) = {}

\* C13 witness: the folder deleted held a folder that held an item
C13_Witness ==
    /\ alast.op = "DeleteFile" /\ alast.ok
    /\ \A c \in Clients : ~ AInFlight(c)
    /\ \E f, g \in alast.before :
          /\ alast.ID \in g.Parents /\ g.ID \in f.Parents /\ g.MIMEType = FolderMIME
          /\ f \notin files /\ g \notin files

\* The name an item is shown under in a listing
DisplayName(f) == ListedMetadata(f).Name

\* C14: a successful DuplicateFile adds exactly one item, with an ID and an
\* ETag other than the original's, the original's content and parents, and
\* the display name "Copy of " + the original's display name; the original
\* is left as it was.
C14_Duplicate ==
    ( /\ alast.op = "DuplicateFile" /\ alast.ok
      /\ \A c \in Clients : ~ AInFlight(c) ) =>
        /\ alast.post = alast.old
        /\ \A o \in alast.old :
              \E n \in files :
                 /\ n \notin alast.before /\ files = alast.before \cup {n}
                 /\ n.ID # o.ID /\ n.ETag # o.ETag
                 /\ n.Content = o.Content /\ n.Parents = o.Parents
                 /\ DisplayName(n) = <<"Copy of ">> \o DisplayName(o)

\* The items reachable from the base folder through their parent chain; every
\* item when no base folder is configured
InBase(store) ==
    IF BaseFolderID = "" THEN store
    ELSE {f \in store : BaseFolderID \in AncestorIDs(store, f.Parents)}

\* C15: SearchFiles returns exactly the non-folder items under the base
\* folder whose display name or content contains the query, compared
\* case-insensitively.
C15_SearchExact ==
    [][\A c \in Clients, query \in Queries :
         SearchFiles(c, query) =>
            {m.ID : m \in alast'.ret} =
                {f.ID : f \in {g \in InBase(files) :
                    /\ g.MIMEType # FolderMIME
                    /\ \/ containsIgnoreCase(NameChars(DisplayName(g)), query)
                       \/ containsIgnoreCase(Chars(g.Content), query)}}]_vars

\* C16: ListStarred returns exactly the starred items under the base folder
\* (every starred item when no base folder is configured).
C16_StarredExact ==
    [][\A c \in Clients :
         ListStarred(c) =>
            {m.ID : m \in alast'.ret} =
                {f.ID : f \in {g \in InBase(files) : g.Starred}}]_vars

\* C18: every FileMetadata an adapter operation hands back for a non-folder
\* item carries the name without the reserved ".md" suffix.
C18_SuffixStripped ==
    alast.ok => \A m \in alast.ret : m.MIMEType # FolderMIME => ~ HasSuffix(m.Name)

\* C19: RenameFile(id, newName) on a folder leaves the name exactly newName,
\* in the returned metadata, in the stored item and in a later GetFile; a
\* renamed non-folder item is stored with the suffix.
C19_RenameSuffix ==
    (alast.op = "RenameFile" /\ alast.ok) =>
        /\ \A m \in alast.ret : m.MIMEType = FolderMIME => m.Name = alast.name
        /\ \A f \in alast.post :
              /\ f.MIMEType = FolderMIME =>
                    /\ f.Name = alast.name
                    /\ \A g \in getFileMap(alast.post, alast.ID) \cup
                                getFileDynamo(alast.post, alast.ID) : g.Name = alast.name
              /\ f.MIMEType # FolderMIME => f.Name = toMemoryName(alast.name)

\* The top-level folders called name
TopLevelFolders(store, name) ==
    {f \in store : /\ f.Name = name /\ f.MIMEType = FolderMIME
                   /\ f.Parents = {} \/ "root" \in f.Parents}

\* C20: EnsureRootFolder(name) is idempotent: a call that follows a call with
\* the same name returns the same folder ID and creates nothing, and when a
\* call returns exactly one top-level folder has that name.
C20_EnsureIdempotent ==
    [][\A c \in Clients, name \in TreeNames :
         ( /\ EnsureRootFolder(c, name) \/ (CreateRootFolderStep(c) /\ acalls[c].name = name)
           /\ ~ AInFlight(c)' )
         => /\ Cardinality(TopLevelFolders(files', name)) = 1
            /\ (alast.op = "EnsureRootFolder" /\ alast.ok /\ alast.name = name) =>
                  /\ alast'.ret = alast.ret
                  /\ files' = files]_vars

\* C17: on the Drive adapter the ETag returned by a successful RenameFile or
\* SetStarred differs from the ETag the item had before the call.
C17_DriveETagChanges ==
    (dlast.op \in {"RenameFile", "SetStarred"} /\ dlast.ok) =>
        \A before \in dlast.pre, after \in dlast.ret : after.ETag # before.ETag

\* C21: ListRootFolders returns exactly the folders whose parent set is empty
\* or holds "root", whatever the base folder: no folder directly under a
\* non-root base folder, and no non-folder item.
C21_RootFoldersExact ==
    [][\A c \in Clients :
         ListRootFolders(c) =>
            {m.ID : m \in alast'.ret} =
                {f.ID : f \in {g \in files :
                    /\ g.MIMEType = FolderMIME
                    /\ g.Parents = {} \/ "root" \in g.Parents}}]_vars

\* C22: the number of stored items never exceeds the per-tenant maximum, and
\* a CreateFile, CreateFolder, DuplicateFile or EnsureRootFolder that finds
\* the maximum reached fails with the item-limit error.
C22_ItemLimit ==
    /\ Cardinality(files) <= maxDemoItemCount
    /\ ( /\ \/ alast.op \in {"CreateFile", "CreateFolder", "DuplicateFile"}
            \/ alast.op = "EnsureRootFolder" /\ alast.pre = {}
         /\ Cardinality(alast.before) >= maxDemoItemCount )
       => alast.err = ErrItemLimit

\* What a caller sees of a returned call: whether it succeeded, the error, and
\* of each item handed back the ID, name, type, parents and star
Observable(r) ==
    [ok |-> r.ok, err |-> r.err,
     ret |-> {[ID |-> m.ID, Name |-> m.Name, MIMEType |-> m.MIMEType,
               Parents |-> m.Parents, Starred |-> m.Starred] : m \in r.ret}]

\* C23: a call gives the same observable result on the adapter with client nil
\* and on the adapter with a DynamoDB client, after the same earlier calls.
C23_ModesAgree ==
    (twin.phase = "both" /\ \A c \in Clients : ~ AInFlight(c)) =>
        Observable(alast) = Observable(twin.alast)

\* C24: the provider keeps one adapter per user: every GetAdapter call for a
\* user returns the same adapter.
C24_OneAdapter == \A u \in Tenants : Cardinality(resolved[u]) <= 1

C26_LockProtects ==
    [][\A c \in Clients :
         ( /\ (\E id \in NoteIDs, etag \in NoteETags : UpdateNote(c, id, etag))
              \/ PutItemStep(c)
           /\ ~ AInFlight(c)'
           /\ alast'.op = "SaveFile" /\ alast'.ok )
         => \A f \in alast'.old : \A s \in Lookup(sessions, f.ID) :
               ( /\ s.UserID # ClientUser[c]
                 /\ ~ (s.ExpiresAt < clock)
                 /\ f.Content = ContentOf(s.UserID) )
               => \A g \in alast'.post : g.Content = f.Content]_vars

\* C27 (as claimed): the holder's record is still stored (no renewal, no
\* ReleaseLock, no eviction since); an AcquireLock of another user that reads
\* a clock value at least TTL after the one the record was renewed at succeeds.
C27_CrashedHolder ==
    (last.op = "AcquireLock" /\ \E s \in OthersRecord(last.pre, last.UserID) :
                                  last.now - (s.ExpiresAt - TTL) >= TTL) =>
        last.ok

\* C27 (amended): with the holder's record still stored, an AcquireLock of
\* another user that reads a clock value more than TTL after the one the
\* record was renewed at (the stored expiry has passed) succeeds and stores
\* the caller's grant.
C27_Amended ==
    (last.op = "AcquireLock" /\ \E s \in OthersRecord(last.pre, last.UserID) :
                                  last.now - (s.ExpiresAt - TTL) > TTL) =>
        last.ok /\ last.post = {Grant(last)}

\* C27 witness: bob is granted the file in the first second after the expiry
\* of alice's record, which is still in the store
C27_Witness ==
    /\ last.op = "AcquireLock" /\ last.ok /\ last.post = {Grant(last)}
    /\ \E s \in OthersRecord(last.pre, last.UserID) : last.now = s.ExpiresAt + 1

\* C28: while less than TTL has passed since the holder's latest successful
\* AcquireLock or Heartbeat, and the holder has not released the lock, no
\* AcquireLock of another user succeeds and a Heartbeat of the holder succeeds.
C28_RenewingHolderKeeps ==
    [][\A c \in Clients :
         /\ (AcquireLock(c) /\ \E u \in Users \ {calls[c].UserID} : OnSchedule(u))
               => ~ last'.ok /\ sessions' = sessions
         /\ (Heartbeat(c) /\ OnSchedule(calls[c].UserID))
               => last'.ok /\ last'.post = {Grant(last')}]_vars

\* C28 witness: the holder's lock was taken longer than TTL ago and renewed
\* since, the holder is on schedule, and the AcquireLock of another user that
\* just returned was refused
C28_Witness ==
    /\ last.op = "AcquireLock" /\ ~ last.ok
    /\ \E s \in last.post :
          /\ s.UserID # last.UserID /\ OnSchedule(s.UserID)
          /\ s.ExpiresAt > TTL + TTL \div 2
    /\ clock >= TTL

\* C29: CheckConflict is true exactly when the two tokens differ: false on
\* two empty tokens, true when exactly one is empty; it gives the same verdict
\* with the tokens exchanged, changes nothing else, and the endpoint, when it
\* answers 200, reports the same verdict.
C29_ConflictIffDifferent ==
    /\ [] (\A v \in sync.got :
             /\ v <=> sync.LocalETag # sync.RemoteETag
             /\ (sync.LocalETag = "" /\ sync.RemoteETag = "") => ~ v
             /\ ((sync.LocalETag = "") # (sync.RemoteETag = "")) => v
             /\ v = CheckConflict(sync.RemoteETag, sync.LocalETag))
    /\ [] (sync.status = 200 =>
             sync.HasConflict = {CheckConflict(sync.LocalETag, sync.RemoteETag)})
    /\ [][CallCheckConflict => UNCHANGED notSyncVars]_vars

\* C29 witness: an empty token against a non-empty one, found in conflict by
\* the function and by the endpoint
C29_Witness ==
    /\ sync.LocalETag = "" /\ sync.RemoteETag # ""
    /\ sync.got = {TRUE} /\ sync.status = 200 /\ sync.HasConflict = {TRUE}

\* C30: the status of a failed session call tells the class of the failure:
\* 404 when no record is stored for the file, 409 when the record belongs to
\* another user, 500 for anything else.
C30_StatusByClass ==
    (last.op \in {"AcquireLock", "Heartbeat", "ReleaseLock"} /\ ~ last.ok) =>
        last.status = IF last.pre = {} THEN 404
                      ELSE IF OthersRecord(last.pre, last.UserID) # {} THEN 409
                      ELSE 500

\* C31: in the process-local mode, while a DeleteFile of a folder is under
\* way the items already removed are descendants of the folder and the folder
\* itself is still stored; a GetFile or ListFiles that returns meanwhile
\* reports the store as it is at that moment, with those descendants missing.
C31_PartialDelete ==
    (client = "nil" /\ acalls[Deleter].pc = "delete") =>
        LET call == acalls[Deleter]
            gone == call.before \ files
        IN /\ FileItems(files, call.ID) # {}
           /\ gone \subseteq Subtree(call.before, call.ID)
           /\ (alast.op = "GetFile" /\ files = alast.before) =>
                 alast.ok <=> FileItems(files, alast.ID) # {}
           /\ (alast.op = "ListFiles" /\ files = alast.before) =>
                 \A f \in gone : \A m \in alast.ret : m.ID # f.ID

\* C31 witness: the delete of a folder is under way, the folder and one of
\* its children are still stored, another child is gone, and the GetFile that
\* just returned did not find that child
C31_Witness ==
    /\ client = "nil" /\ acalls[Deleter].pc = "delete"
    /\ FileItems(files, acalls[Deleter].ID) # {}
    /\ \E f \in files : acalls[Deleter].ID \in f.Parents
    /\ alast.op = "GetFile" /\ alast.err = ErrNotFound
    /\ \E f \in acalls[Deleter].before \ files :
          f.ID = alast.ID /\ acalls[Deleter].ID \in f.Parents

\* C38: once DeleteFile of a folder has returned successfully and no call is
\* in flight, no stored item names the folder or an item deleted with it
\* among its parents.
C38_NoOrphan ==
    ( /\ alast.op = "DeleteFile" /\ alast.ok
      /\ \E f \in alast.pre : f.MIMEType = FolderMIME
      /\ \A c \in Clients : ~ AInFlight(c) ) =>
        \A f \in files : \A p \in f.Parents : FileItems(files, p) # {} \/ p = "root"

\* Whether a chain of parents leads from the set parents to the base folder
\* through folders whose lookup succeeds (on a graph without cycles)
RECURSIVE Reaches(_, _)
Reaches(w, parents) ==
    \E p \in parents :
       \/ p = Base
       \/ p \in Nodes /\ p \notin w.missing /\ Reaches(w, w.parents[p])

\* C32: within one ListStarred or SearchFiles call of the Drive adapter no
\* folder is looked up in Drive more than once.
C32_FetchedOnce ==
    walk.adapter = "drive" => \A n \in Nodes : walk.fetched[n] <= 1

\* C32 witness: both candidates have the folder A among their parents, the
\* first was judged outside the base folder, both are judged, and A was
\* looked up once
C32_Witness ==
    /\ walk.adapter = "drive" /\ Len(walk.out) = 2 /\ ~ walk.out[1]
    /\ "A" \in walk.cands[1] /\ "A" \in walk.cands[2] /\ "A" \notin walk.missing
    /\ walk.fetched["A"] = 1

\* C33: in the Drive adapter's walk a failed lookup of a parent only makes
\* that branch not match: every candidate is judged, and judged inside the
\* base folder exactly when one of its parent chains reaches the base folder
\* through folders whose lookup succeeds.
C33_FailedLookupLocal ==
    walk.adapter = "drive" =>
        /\ walk.stack = <<>> => Len(walk.out) = walk.k
        /\ \A i \in 1 .. Len(walk.out) : walk.out[i] <=> Reaches(walk, walk.cands[i])

\* C33 witness: the lookup of a parent of the first candidate failed, the
\* candidate was still judged inside the base folder, and the second
\* candidate, under a folder whose lookup succeeded, was judged inside too
C33_Witness ==
    /\ walk.adapter = "drive" /\ Len(walk.out) = 2 /\ walk.out[1] /\ walk.out[2]
    /\ \E m \in walk.missing : m \in walk.cands[1] /\ walk.fetched[m] = 1
    /\ Base \notin walk.cands[2]

\* C34: the ancestor walk ends on every parent graph: no folder is entered
\* again while its own invocation is still on the stack.
C34_WalkTerminates ==
    \A i, j \in 1 .. Len(walk.stack) :
        i # j => walk.stack[i].node # walk.stack[j].node

\* C35: two concurrent SaveFile calls on one item that present the same
\* non-empty, currently valid etag never both succeed: a SaveFile that
\* presented a non-empty etag succeeds only if the item still carries that
\* ETag at the moment the write is applied, in both modes.
C35_OneConcurrentSave ==
    (alast.op = "SaveFile" /\ alast.ok /\ alast.etag # "") =>
        \A f \in alast.old : f.ETag = alast.etag

\* C37: a successful SaveFile on a file leaves the display name, the parents,
\* the MIME type and the starred flag of the item as they were, and changes
\* no other item, in both modes.
C37_SaveFrame ==
    [][\A c \in Clients :
         ( /\ SaveFile(c, alast'.ID, alast'.content, alast'.etag) \/ PutItemStep(c)
           /\ alast'.op = "SaveFile" /\ alast'.ok ) =>
            /\ \A f \in files : f.ID # alast'.ID => f \in files'
            /\ \A g \in files' : g.ID # alast'.ID => g \in files
            /\ \A f \in FileItems(files, alast'.ID), g \in FileItems(files', alast'.ID) :
                  f.MIMEType # FolderMIME =>
                     /\ fromMemoryName(g.Name) = fromMemoryName(f.Name)
                     /\ g.Parents = f.Parents
                     /\ g.MIMEType = f.MIMEType
                     /\ g.Starred = f.Starred]_vars

\* C36: an ETag a successful mutation has replaced is never the item's ETag
\* again, whatever is written afterwards, so a later SaveFile presenting it
\* cannot pass the ETag comparison.
C36_SupersededStaysInvalid ==
    \A f \in drive : <<f.ID, Md5Checksum(f.MIMEType, f.Content)>> \notin superseded

\* C39: within one lock manager GetLockStatus and AcquireLock agree: when the
\* record GetLockStatus would report at the time AcquireLock uses names
\* another user, that AcquireLock fails, also when that time equals the
\* stored ExpiresAt.
C39_StatusAndAcquireAgree ==
    [][\A c \in Clients :
         ( /\ AcquireLock(c)
           /\ \E s \in LockStatus(Lookup(sessions, calls[c].FileID), CallNow(c)) :
                 s.UserID # calls[c].UserID )
         => ~ last'.ok /\ sessions' = sessions]_vars

\* C40: MockLocker and LockManager accept and reject the same calls: every
\* AcquireLock is answered as the condition of either implementation decides
\* on the record found and the time used, and Heartbeat and ReleaseLock as the
\* owner comparison decides.
C40_LockersEquivalent ==
    /\ last.op = "AcquireLock" =>
          /\ last.ok <=> LockManagerAcquireCondition(last.pre, last.now, last.UserID)
          /\ last.ok <=> MockLockerAcquireCondition(last.pre, last.now, last.UserID)
    /\ last.op = "Heartbeat" => (last.ok <=> HeartbeatCondition(last.pre, last.UserID))
    /\ last.op = "ReleaseLock" => (last.ok <=> ReleaseCondition(last.pre, last.UserID))

====
